---- MODULE Spec2Model ----
(***************************************************************************)
(* A model of FBXReader_Mesh.cpp: FBXReader::extractMesh (the polygon      *)
(* stream path with appendIndex and its vertex deduplication hash, and the *)
(* DracoMesh path) and FBXReader::buildModelMesh (the GPU buffer layout).  *)
(*                                                                         *)
(* Vectors (glm::vec2/vec3/vec4) are tuples of integers; operator== on     *)
(* them is tuple equality (no NaN component is modelled).  C++ containers  *)
(* are 0-based, TLA+ sequences 1-based: At(s, i) reads s.at(i).            *)
(***************************************************************************)
EXTENDS Integers, Sequences, FiniteSets, TLC

VARIABLES
    pc,                    \* position in extractMesh / buildModelMesh
    data,                  \* MeshData: the raw arrays read from the node
    materials,             \* extractMesh local: per-polygon material ids
    textures,              \* extractMesh local: per-polygon texture ids
    draco,                 \* the decoded DracoMesh child of the node, or NoDraco
    isDracoMesh,           \* extractMesh local
    indices,               \* MeshData::indices, the QHash<Vertex, int>
    extracted,             \* MeshData::extracted, the ExtractedMesh being built
    materialTextureParts,  \* QHash<QPair<int,int>, int>: key -> part index + 1
    loop,                  \* loop locals: polygonIndex, beginIndex, endIndex, nextIndex, partIndex, i
    calls,                 \* history: one record per appendIndex call that resolved a corner
    poly,                  \* history: the polygon being processed and the list lengths before it
    fbxMesh,               \* buildModelMesh argument (FBXMesh& extractedMesh)
    build,                 \* buildModelMesh locals (sizes, offsets, buffers, the new model::Mesh)
    meshSet,               \* whether extractedMesh._mesh has been assigned
    node,                  \* the FBXNode object: its children and the foreach position
    threads,               \* concurrent extractMesh calls: position, node, locals, result
    meshIndex,             \* the callers' unsigned int meshIndex counters
    highlighting,          \* ItemHighlightScriptingInterface: the list, the scene's selection, the last call
    audio                  \* Audio: _ringBuffer's next-output offset and flags, _outputBuffer size, the last step

vars == <<pc, data, materials, textures, draco, isDracoMesh, indices, extracted,
          materialTextureParts, loop, calls, poly, fbxMesh, build, meshSet,
          node, threads, meshIndex, highlighting, audio>>

extractVars == <<data, materials, textures, draco, isDracoMesh, indices, extracted,
                 materialTextureParts, loop, calls, poly, node>>

buildVars == <<fbxMesh, build, meshSet>>

threadVars == <<threads, meshIndex>>

interfaceVars == <<highlighting, audio>>

\* the value of highlighting / audio in the specifications that run neither
NoHighlighting == [list |-> <<>>]

NoAudio == [nextOutput |-> 0]

-----------------------------------------------------------------------------
(* Bounds of the model *)

\* longest polygon-index stream drawn for the node
MaxStream == 5

\* most points of a decoded DracoMesh
MaxPoints == 2

\* most faces of a decoded DracoMesh
MaxFaces == 2

\* most vertices of the mesh handed to buildModelMesh
MaxVerts == 1

-----------------------------------------------------------------------------
(* Helpers *)

At(s, i) == s[i + 1]

Zero2 == <<0, 0>>
Zero3 == <<0, 0, 0>>
Zero4 == <<0, 0, 0, 0>>

Add3(a, b) == <<a[1] + b[1], a[2] + b[2], a[3] + b[3]>>

\* glm::vec3(color): the conversion drops the alpha component
Vec3OfVec4(c) == <<c[1], c[2], c[3]>>

RECURSIVE SeqsUpTo(_, _)
SeqsUpTo(S, n) ==
    IF n = 0 THEN {<<>>}
    ELSE LET shorter == SeqsUpTo(S, n - 1)
         IN  shorter \cup {Append(s, x) : s \in {t \in shorter : Len(t) = n - 1}, x \in S}

-----------------------------------------------------------------------------
(* class Vertex, qHash(Vertex), operator==(Vertex, Vertex) *)

Vertex(originalIndex, texCoord, texCoord1) ==
    [originalIndex |-> originalIndex, texCoord |-> texCoord, texCoord1 |-> texCoord1]

\* a plausible slip: the UV coordinates are left out of the comparison
VertexEqIndexOnly(v1, v2) == v1.originalIndex = v2.originalIndex

VertexEq(v1, v2) ==
    /\ v1.originalIndex = v2.originalIndex
    /\ v1.texCoord = v2.texCoord
    /\ v1.texCoord1 = v2.texCoord1

\* QHash<Vertex, int>::find: the keys of h equal to v (none: constEnd)
HashFind(h, v) == {k \in DOMAIN h : VertexEq(k, v)}

\* a plausible slip: the new vertex is never recorded in the hash
HashInsertDropped(h, v, i) == h

\* a plausible slip: the key is recorded before its secondary UV is filled in
HashInsertWithoutTexCoord1(h, v, i) == h @@ (Vertex(v.originalIndex, v.texCoord, Zero2) :> i)

\* a plausible slip: the index stored for the key is one too large
HashInsertOffByOne(h, v, i) == h @@ (v :> i + 1)

\* QHash<Vertex, int>::insert of a key that find did not return
HashInsert(h, v, i) == h @@ (v :> i)

-----------------------------------------------------------------------------
(* appendIndex: the lookups of one corner *)

\* a negative stream entry -(v+1) encodes vertex v and ends the polygon
DecodeVertexIndex(raw) == IF raw < 0 THEN -raw - 1 ELSE raw

\* a plausible slip: the position is read at a fixed place, not at the source index
ResolvePositionFirst(d, vertexIndex) ==
    IF d.vertices = <<>> THEN Zero3 ELSE At(d.vertices, 0)

\* glm::vec3 position; if (vertexIndex < data.vertices.size()) position = vertices.at(vertexIndex)
ResolvePosition(d, vertexIndex) ==
    IF vertexIndex < Len(d.vertices) THEN At(d.vertices, vertexIndex) ELSE Zero3

\* a plausible slip: an out-of-range entry is wrapped into the array instead of refused
LookupWrapped(values, valueIndices, i, zero) ==
    LET j == IF valueIndices = <<>> THEN i
             ELSE IF i < Len(valueIndices) THEN At(valueIndices, i) ELSE i
    IN  IF values = <<>> THEN zero ELSE At(values, j % Len(values))

\* a lookup through an optional index array: zero when out of range
Lookup(values, valueIndices, i, zero) ==
    IF valueIndices = <<>>
    THEN IF i < Len(values) THEN At(values, i) ELSE zero
    ELSE IF i < Len(valueIndices)
         THEN LET j == At(valueIndices, i)
              IN  IF j >= 0 /\ j < Len(values) THEN At(values, j) ELSE zero
         ELSE zero

ResolveNormal(d, vertexIndex, index) ==
    Lookup(d.normals, d.normalIndices,
           IF d.normalsByVertex THEN vertexIndex ELSE index, Zero3)

HasColors(d) == Len(d.colors) > 1

ResolveColor(d, vertexIndex, index) ==
    IF HasColors(d)
    THEN Lookup(d.colors, d.colorIndices,
                IF d.colorsByVertex THEN vertexIndex ELSE index, Zero4)
    ELSE Zero4

ResolveTexCoord(d, index) == Lookup(d.texCoords, d.texCoordIndices, index, Zero2)

HasMoreTexcoords(d) == Len(d.attributes) > 1

ResolveTexCoord1(d, index) ==
    IF HasMoreTexcoords(d)
    THEN Lookup(d.attributes[2].texCoords, d.attributes[2].texCoordIndices, index, Zero2)
    ELSE Zero2

\* a plausible slip: the pair is recorded the wrong way round
NewIndicesInsertSwapped(newIndices, key, value) == newIndices \cup {<<value, key>>}

\* data.extracted.newIndices.insert(key, value)
NewIndicesInsert(newIndices, key, value) == newIndices \cup {<<key, value>>}

\* a plausible slip: the normal is added to every output vertex
AccumulateNormalAll(normals, it, normal) ==
    [k \in 1 .. Len(normals) |-> Add3(normals[k], normal)]

\* a plausible slip: the hit branch assigns the normal instead of adding it
AccumulateNormalAssign(normals, it, normal) == [normals EXCEPT ![it + 1] = normal]

\* data.extracted.mesh.normals[*it] += normal
AccumulateNormal(normals, it, normal) == [normals EXCEPT ![it + 1] = Add3(@, normal)]

\* the identity key appendIndex forms for the corner at stream position index
CornerVertex(d, index) ==
    Vertex(DecodeVertexIndex(At(d.polygonIndices, index)),
           ResolveTexCoord(d, index), ResolveTexCoord1(d, index))

(* appendIndex(data, part.<list>, index), on st = [indices, extracted, calls]; *)
(* the list is extracted.mesh.parts[partNo].<list>                            *)
appendIndex(d, st, partNo, list, index) ==
    IF index >= Len(d.polygonIndices) THEN st
    ELSE
    LET vertexIndex == DecodeVertexIndex(At(d.polygonIndices, index))
        position == ResolvePosition(d, vertexIndex)
        normal == ResolveNormal(d, vertexIndex, index)
        color == ResolveColor(d, vertexIndex, index)
        vertex == CornerVertex(d, index)
        found == HashFind(st.indices, vertex)
        mesh == st.extracted.mesh
        call == [index |-> index, vertexIndex |-> vertexIndex, position |-> position,
                 texCoord |-> vertex.texCoord, texCoord1 |-> vertex.texCoord1,
                 normal |-> normal, color |-> color, part |-> partNo, list |-> list]
    IN  IF found = {}
        THEN LET newIndex == Len(mesh.vertices)
             IN  [indices |-> HashInsert(st.indices, vertex, newIndex),
                  extracted |->
                    [st.extracted EXCEPT
                       !.newIndices = NewIndicesInsert(@, vertexIndex, newIndex),
                       !.mesh.parts[partNo][list] = Append(@, newIndex),
                       !.mesh.vertices = Append(@, position),
                       !.mesh.normals = Append(@, normal),
                       !.mesh.texCoords = Append(@, vertex.texCoord),
                       !.mesh.colors = IF HasColors(d) THEN Append(@, Vec3OfVec4(color)) ELSE @,
                       !.mesh.texCoords1 =
                            IF HasMoreTexcoords(d) THEN Append(@, vertex.texCoord1) ELSE @],
                  calls |-> Append(st.calls, call @@ [out |-> newIndex, isNew |-> TRUE])]
        ELSE LET it == st.indices[CHOOSE k \in found : TRUE]
             IN  [indices |-> st.indices,
                  extracted |->
                    [st.extracted EXCEPT
                       !.mesh.parts[partNo][list] = Append(@, it),
                       !.mesh.normals = AccumulateNormal(@, it, normal)],
                  calls |-> Append(st.calls, call @@ [out |-> it, isNew |-> FALSE])]

-----------------------------------------------------------------------------
(* The inputs drawn for one mesh node *)

\* source vertex indices the polygon stream refers to
SourceIds == {0, 1}

\* polygon stream entries: v, or -(v+1) for the last corner of a polygon
RawEntries == SourceIds \cup {-(v + 1) : v \in SourceIds}

P1 == <<1, 0, 0>>
P2 == <<0, 1, 0>>
N1 == <<0, 0, 1>>
N2 == <<0, 1, 0>>
U1 == <<1, 0>>
U2 == <<0, 1>>
Col1 == <<1, 0, 0, 1>>
Col2 == <<0, 1, 0, 1>>

\* "Vertices", "LayerElementMaterial" and "LayerElementTexture" children
GeomPlain == [vertices |-> <<P1, P2>>, materials |-> <<>>, textures |-> <<>>]
\* two source vertices at one position; three per-polygon materials
GeomSamePosition == [vertices |-> <<P1, P1>>, materials |-> <<0, 1, 0>>, textures |-> <<>>]
\* source vertex 1 is beyond the vertices array
GeomShort == [vertices |-> <<P1>>, materials |-> <<1>>, textures |-> <<0, 1>>]

\* "LayerElementNormal", "LayerElementColor" and "LayerElementUV" children
\* no layer at all; normalsByVertex and colorsByVertex are then never assigned
LayerNone(b) ==
    [normalsByVertex |-> b, normals |-> <<>>, normalIndices |-> <<>>,
     colorsByVertex |-> b, colors |-> <<>>, colorIndices |-> <<>>,
     texCoords |-> <<>>, texCoordIndices |-> <<>>, attributes |-> <<>>]
\* normals by vertex, primary UV per corner
LayerUV ==
    [normalsByVertex |-> TRUE, normals |-> <<N1, N2>>, normalIndices |-> <<>>,
     colorsByVertex |-> FALSE, colors |-> <<>>, colorIndices |-> <<>>,
     texCoords |-> <<U1, U2, U1, U1, U2, U2>>, texCoordIndices |-> <<>>,
     attributes |-> <<[texCoords |-> <<U1, U2, U1, U1, U2, U2>>, texCoordIndices |-> <<>>]>>]
\* normals by corner through an index array, indexed primary UV, a second UV set
LayerIndexed ==
    [normalsByVertex |-> FALSE, normals |-> <<N1, N2>>, normalIndices |-> <<1, 0, -1, 2, 0, 1>>,
     colorsByVertex |-> FALSE, colors |-> <<Col1>>, colorIndices |-> <<>>,
     texCoords |-> <<U1, U2>>, texCoordIndices |-> <<0, 0, 1, -1, 2>>,
     attributes |-> <<[texCoords |-> <<U1, U2>>, texCoordIndices |-> <<0, 0, 1, -1, 2>>],
                      [texCoords |-> <<U2, U2, U1, U1>>, texCoordIndices |-> <<>>]>>]
\* normals by corner, colours by vertex, no UV
LayerColors ==
    [normalsByVertex |-> FALSE, normals |-> <<N1, N2, N1, N1>>, normalIndices |-> <<>>,
     colorsByVertex |-> TRUE, colors |-> <<Col1, Col2>>, colorIndices |-> <<>>,
     texCoords |-> <<>>, texCoordIndices |-> <<>>, attributes |-> <<>>]
\* normals by vertex, indexed colours by corner, two UV sets, the second one indexed
LayerTwoUV ==
    [normalsByVertex |-> TRUE, normals |-> <<N1>>, normalIndices |-> <<>>,
     colorsByVertex |-> FALSE, colors |-> <<Col1, Col2>>, colorIndices |-> <<1, 0, 2, -1>>,
     texCoords |-> <<U1, U1, U1, U1, U1, U1>>, texCoordIndices |-> <<>>,
     attributes |-> <<[texCoords |-> <<U1, U1, U1, U1, U1, U1>>, texCoordIndices |-> <<>>],
                      [texCoords |-> <<U1, U2>>, texCoordIndices |-> <<0, 1, 1, 0, 5>>]>>]

\* the attribute children drawn for a node, beside its polygon stream
NodeInputs ==
    { <<GeomPlain, LayerNone(FALSE)>>, <<GeomSamePosition, LayerNone(TRUE)>>,
      <<GeomSamePosition, LayerUV>>, <<GeomShort, LayerIndexed>>,
      <<GeomPlain, LayerColors>>, <<GeomShort, LayerTwoUV>> }

PolygonStreams == SeqsUpTo(RawEntries, MaxStream)

\* the square of the concrete scenario, and a pentagon around it
GeomSquare ==
    [vertices |-> <<<<0, 0, 0>>, <<1, 0, 0>>, <<1, 1, 0>>, <<0, 1, 0>>>>,
     materials |-> <<>>, textures |-> <<>>]
GeomPentagon ==
    [vertices |-> <<<<0, 0, 0>>, <<1, 0, 0>>, <<2, 1, 0>>, <<1, 2, 0>>, <<0, 1, 0>>>>,
     materials |-> <<>>, textures |-> <<>>]

\* nodes with more source vertices than SourceIds: one quad, one pentagon, both,
\* and a triangle whose last entry names a source vertex far beyond the array
ExampleNodes ==
    { <<GeomSquare, LayerNone(FALSE), <<0, 1, 2, -4>>>>,
      <<GeomPentagon, LayerNone(FALSE), <<0, 1, 2, 3, -5>>>>,
      <<GeomPentagon, LayerColors, <<0, 1, 2, -4, 4, 3, 2, 1, -1>>>>,
      <<GeomSquare, LayerNone(FALSE), <<0, 1, -2147483647>>>> }

MeshDataOf(g, l, stream) ==
    [vertices |-> g.vertices, polygonIndices |-> stream,
     normalsByVertex |-> l.normalsByVertex, normals |-> l.normals,
     normalIndices |-> l.normalIndices,
     colorsByVertex |-> l.colorsByVertex, colors |-> l.colors,
     colorIndices |-> l.colorIndices,
     texCoords |-> l.texCoords, texCoordIndices |-> l.texCoordIndices,
     attributes |-> l.attributes]

NoDraco == [present |-> FALSE]

\* the attribute value the codec converts for a point: ConvertValue<float, 3> / <float, 2>
DracoValue3(kind, mappedIndex) == <<kind, mappedIndex, 0>>
DracoValue2(kind, mappedIndex) == <<kind, mappedIndex>>
\* ConvertValue<uint16_t, 1> of the material attribute
DracoMaterialID(mappedIndex) == mappedIndex % 2

\* faces of a decoded mesh with n points: triples of point indices
DracoFaceTriples(n) == {<<a, (a + 1) % n, (a + 2) % n>> : a \in 0 .. n - 1}

DracoMeshesOf(n) ==
    { [present |-> TRUE, numPoints |-> n, faces |-> f,
       hasPosition |-> a[1], hasNormal |-> a[2], hasTexCoord |-> a[3],
       hasExtraTexCoord |-> a[4], hasColor |-> a[5], hasMatTex |-> a[6]] :
         f \in SeqsUpTo(DracoFaceTriples(n), MaxFaces), a \in [1 .. 6 -> BOOLEAN] }

\* what draco::Decoder::DecodeBufferToGeometry can hand back
DracoMeshes == UNION {DracoMeshesOf(n) : n \in 0 .. MaxPoints}

EmptyMesh ==
    [vertices |-> <<>>, normals |-> <<>>, texCoords |-> <<>>, texCoords1 |-> <<>>,
     colors |-> <<>>, parts |-> <<>>]

EmptyExtracted ==
    [mesh |-> EmptyMesh, newIndices |-> {}, partMaterialTextures |-> <<>>,
     texcoordSetMap |-> <<>>]

EmptyPart == [quadIndices |-> <<>>, quadTrianglesIndices |-> <<>>, triangleIndices |-> <<>>]

EmptyLoop ==
    [polygonIndex |-> 0, beginIndex |-> 0, endIndex |-> 0, nextIndex |-> 0,
     partIndex |-> 0, i |-> 0]

NoPoly == [kind |-> "none"]

NoFbxMesh == [given |-> FALSE]

NoBuild == [started |-> FALSE]

\* a node whose remaining children are the given ones
NodeOf(children) == [children |-> children, next |-> 0]

\* child.name == "DracoMesh"; the decoder's result for its payload is draco
DracoMeshChild == [name |-> "DracoMesh"]

NoThreads == <<>>

NoCounters == <<>>

-----------------------------------------------------------------------------
(* FBXReader::extractMesh *)

\* the node has raw polygon data and no DracoMesh child; the foreach has visited
\* the children that carry it
InitPolygons ==
    /\ \E n \in {<<i[1], i[2], stream>> : i \in NodeInputs, stream \in PolygonStreams}
                  \cup ExampleNodes :
          /\ data = MeshDataOf(n[1], n[2], n[3])
          /\ materials = n[1].materials
          /\ textures = n[1].textures
    /\ draco = NoDraco
    /\ node = NodeOf(<<>>)

\* the node has a DracoMesh child left to visit (and possibly a raw polygon stream
\* read from a child before it)
InitDraco ==
    /\ \E stream \in {<<>>, <<0, 1, -1>>} :
          data = MeshDataOf(GeomPlain, LayerNone(TRUE), stream)
    /\ materials = <<>>
    /\ textures = <<>>
    /\ draco \in DracoMeshes
    /\ node = NodeOf(<<DracoMeshChild>>)

InitExtract ==
    /\ pc = "children"
    /\ InitPolygons \/ InitDraco
    /\ isDracoMesh = FALSE
    /\ indices = <<>>
    /\ extracted = EmptyExtracted
    /\ materialTextureParts = <<>>
    /\ loop = EmptyLoop
    /\ calls = <<>>
    /\ poly = NoPoly
    /\ fbxMesh = NoFbxMesh
    /\ build = NoBuild
    /\ meshSet = FALSE
    /\ threads = NoThreads
    /\ meshIndex = NoCounters
    /\ highlighting = NoHighlighting
    /\ audio = NoAudio

\* int& partIndex = materialTextureParts[materialTexture]: 0 when the key is new
\* a plausible slip: the key is never found, every polygon sets up a part
PartIndexPlusOneFresh(mtp, key) == 0

\* int& partIndex = materialTextureParts[materialTexture]: 0 for a key not yet seen
PartIndexPlusOne(mtp, key) == IF key \in DOMAIN mtp THEN mtp[key] ELSE 0

\* grab or set up the FBXMeshPart of a (material, texture) key: [mtp, ex, partIndex]
GrabPart(mtp, ex, key) ==
    IF PartIndexPlusOne(mtp, key) = 0
    THEN LET newParts == Append(ex.mesh.parts, EmptyPart)
         IN  [mtp |-> [k \in DOMAIN mtp \cup {key} |->
                          IF k = key THEN Len(newParts) ELSE mtp[k]],
              ex |-> [ex EXCEPT !.partMaterialTextures = Append(@, key),
                                !.mesh.parts = newParts],
              partIndex |-> Len(newParts)]
    ELSE [mtp |-> mtp, ex |-> ex, partIndex |-> mtp[key]]

\* foreach (const FBXNode& child, object.children): no child is left
ChildrenEnd ==
    /\ pc = "children"
    /\ node.next >= Len(node.children)
    /\ pc' = "afterChildren"
    /\ UNCHANGED <<data, materials, textures, draco, isDracoMesh, indices, extracted,
                   materialTextureParts, loop, calls, poly, node, buildVars, threadVars, interfaceVars>>

\* child.name == "DracoMesh": decode, fetch the attributes, reserve
ChildDracoMesh ==
    /\ pc = "children"
    /\ node.next < Len(node.children)
    /\ At(node.children, node.next).name = "DracoMesh"
    /\ isDracoMesh' = TRUE
    /\ materialTextureParts' = <<>>
    /\ loop' = [loop EXCEPT !.i = 0]
    /\ pc' = "dracoPoints"
    /\ UNCHANGED <<data, materials, textures, draco, indices, extracted, calls, poly,
                   node, buildVars, threadVars, interfaceVars>>

\* one iteration of: for (int i = 0; i < numVertices; ++i)
DracoPoint ==
    /\ pc = "dracoPoints"
    /\ loop.i < draco.numPoints
    /\ LET i == loop.i
       IN  extracted' =
             [extracted EXCEPT
                !.mesh.vertices =
                    IF draco.hasPosition THEN Append(@, DracoValue3(1, i)) ELSE @,
                !.mesh.normals =
                    IF draco.hasNormal THEN Append(@, DracoValue3(2, i)) ELSE @,
                !.mesh.texCoords =
                    IF draco.hasTexCoord THEN Append(@, DracoValue2(3, i)) ELSE @,
                !.mesh.texCoords1 =
                    IF draco.hasExtraTexCoord THEN Append(@, DracoValue2(4, i)) ELSE @,
                !.mesh.colors =
                    IF draco.hasColor THEN Append(@, DracoValue3(5, i)) ELSE @,
                !.newIndices = NewIndicesInsert(@, i, i)]
    /\ loop' = [loop EXCEPT !.i = @ + 1]
    /\ UNCHANGED <<pc, data, materials, textures, draco, isDracoMesh, indices,
                   materialTextureParts, calls, poly, node, buildVars, threadVars, interfaceVars>>

\* the point loop ends, the face loop starts
DracoPointsEnd ==
    /\ pc = "dracoPoints"
    /\ loop.i >= draco.numPoints
    /\ loop' = [loop EXCEPT !.i = 0]
    /\ pc' = "dracoFaces"
    /\ UNCHANGED <<data, materials, textures, draco, isDracoMesh, indices, extracted,
                   materialTextureParts, calls, poly, node, buildVars, threadVars, interfaceVars>>

\* one iteration of: for (int i = 0; i < dracoMesh->num_faces(); ++i)
DracoFace ==
    /\ pc = "dracoFaces"
    /\ loop.i < Len(draco.faces)
    /\ LET face == At(draco.faces, loop.i)
           firstCorner == face[1]
           materialID == IF draco.hasMatTex THEN DracoMaterialID(firstCorner) ELSE 0
           grabbed == GrabPart(materialTextureParts, extracted, <<materialID, 0>>)
       IN  /\ materialTextureParts' = grabbed.mtp
           /\ extracted' =
                [grabbed.ex EXCEPT
                   !.mesh.parts[grabbed.partIndex].triangleIndices = @ \o face]
           /\ loop' = [loop EXCEPT !.i = @ + 1, !.partIndex = grabbed.partIndex]
    /\ UNCHANGED <<pc, data, materials, textures, draco, isDracoMesh, indices, calls, poly,
                   node, buildVars, threadVars, interfaceVars>>

\* the face loop ends; the foreach goes on to the next child
DracoFacesEnd ==
    /\ pc = "dracoFaces"
    /\ loop.i >= Len(draco.faces)
    /\ pc' = "children"
    /\ node' = [node EXCEPT !.next = @ + 1]
    /\ UNCHANGED <<data, materials, textures, draco, isDracoMesh, indices, extracted,
                   materialTextureParts, loop, calls, poly, buildVars, threadVars, interfaceVars>>

\* a plausible slip: the polygon loop runs whether or not a DracoMesh was seen
RunsPolygonLoopAlways(isDraco) == TRUE

\* if (!isDracoMesh)
RunsPolygonLoop(isDraco) == ~isDraco

\* if (!isDracoMesh) { ... polygon loop ... }  return data.extracted
AfterChildren ==
    /\ pc = "afterChildren"
    /\ IF ~RunsPolygonLoop(isDracoMesh)
       THEN pc' = "done" /\ UNCHANGED <<loop, materialTextureParts>>
       ELSE /\ pc' = "polygons"
            /\ loop' = [loop EXCEPT !.polygonIndex = 0, !.beginIndex = 0]
            /\ materialTextureParts' = <<>>
    /\ UNCHANGED <<data, materials, textures, draco, isDracoMesh, indices, extracted,
                   calls, poly, node, buildVars, threadVars, interfaceVars>>

\* a plausible slip: the scan for the terminator does not advance
ScanEndIndexStuck(stream, endIndex) == endIndex

\* while (endIndex < size && polygonIndices.at(endIndex++) >= 0);
RECURSIVE ScanEndIndex(_, _)
ScanEndIndex(stream, endIndex) ==
    IF endIndex < Len(stream)
    THEN IF At(stream, endIndex) >= 0
         THEN ScanEndIndex(stream, endIndex + 1)
         ELSE endIndex + 1
    ELSE endIndex

MaterialTextureOf(polygonIndex) ==
    << IF polygonIndex < Len(materials) THEN At(materials, polygonIndex) ELSE 0,
       IF polygonIndex < Len(textures) THEN At(textures, polygonIndex) ELSE 0 >>

\* head of one iteration of the polygon loop: the span and the part of the polygon
BeginPolygon ==
    /\ pc = "polygons"
    /\ loop.beginIndex < Len(data.polygonIndices)
    /\ LET endIndex == ScanEndIndex(data.polygonIndices, loop.beginIndex)
           grabbed == GrabPart(materialTextureParts, extracted,
                               MaterialTextureOf(loop.polygonIndex))
           isQuad == endIndex - loop.beginIndex = 4
       IN  /\ materialTextureParts' = grabbed.mtp
           /\ extracted' = grabbed.ex
           /\ loop' = [loop EXCEPT !.endIndex = endIndex,
                                   !.partIndex = grabbed.partIndex,
                                   !.nextIndex = loop.beginIndex + 1]
           /\ poly' = [kind |-> IF isQuad THEN "quad" ELSE "fan",
                       polygonIndex |-> loop.polygonIndex,
                       begin |-> loop.beginIndex, end |-> endIndex,
                       part |-> grabbed.partIndex,
                       before |-> grabbed.ex.mesh.parts[grabbed.partIndex],
                       callsBefore |-> Len(calls),
                       finished |-> FALSE]
           /\ pc' = IF isQuad THEN "quad" ELSE "fan"
    /\ UNCHANGED <<data, materials, textures, draco, isDracoMesh, indices, calls,
                   node, buildVars, threadVars, interfaceVars>>

\* a plausible slip: the other diagonal ("v0, v1, v2" and "v2, v3, v0")
QuadTrianglesOtherDiagonal(i0, i1, i2, i3) == <<i0, i1, i2, i2, i3, i0>>

\* Triangle tri1 = { v0, v1, v3 }; Triangle tri2 = { v1, v2, v3 };
QuadTriangles(i0, i1, i2, i3) == <<i0, i1, i3, i1, i2, i3>>

\* if (endIndex - beginIndex == 4) { ... }
Quad ==
    /\ pc = "quad"
    /\ LET p == loop.partIndex
           b == loop.beginIndex
           s0 == [indices |-> indices, extracted |-> extracted, calls |-> calls]
           s1 == appendIndex(data, s0, p, "quadIndices", b)
           s2 == appendIndex(data, s1, p, "quadIndices", b + 1)
           s3 == appendIndex(data, s2, p, "quadIndices", b + 2)
           s4 == appendIndex(data, s3, p, "quadIndices", b + 3)
           quadIndices == s4.extracted.mesh.parts[p].quadIndices
           quadStartIndex == Len(quadIndices) - 4
       IN  /\ indices' = s4.indices
           /\ calls' = s4.calls
           /\ extracted' =
                [s4.extracted EXCEPT
                   !.mesh.parts[p].quadTrianglesIndices =
                       @ \o QuadTriangles(At(quadIndices, quadStartIndex + 0),
                                          At(quadIndices, quadStartIndex + 1),
                                          At(quadIndices, quadStartIndex + 2),
                                          At(quadIndices, quadStartIndex + 3))]
           /\ loop' = [loop EXCEPT !.beginIndex = b + 4, !.polygonIndex = @ + 1]
    /\ poly' = [poly EXCEPT !.finished = TRUE]
    /\ pc' = "polygons"
    /\ UNCHANGED <<data, materials, textures, draco, isDracoMesh, materialTextureParts,
                   node, buildVars, threadVars, interfaceVars>>

\* a plausible slip: a strip instead of a fan
FanCornersStrip(beginIndex, nextIndex) == <<nextIndex - 1, nextIndex, nextIndex + 1>>

\* the three stream positions one iteration of the fan loop resolves
FanCorners(beginIndex, nextIndex) == <<beginIndex, nextIndex, nextIndex + 1>>

\* one iteration of: for (int nextIndex = beginIndex + 1;; ) { ... }
FanStep ==
    /\ pc = "fan"
    /\ LET p == loop.partIndex
           c == FanCorners(loop.beginIndex, loop.nextIndex)
           s0 == [indices |-> indices, extracted |-> extracted, calls |-> calls]
           s1 == appendIndex(data, s0, p, "triangleIndices", c[1])
           s2 == appendIndex(data, s1, p, "triangleIndices", c[2])
           s3 == appendIndex(data, s2, p, "triangleIndices", c[3])
           nextIndex == loop.nextIndex + 1
           break == \/ nextIndex >= Len(data.polygonIndices)
                    \/ At(data.polygonIndices, nextIndex) < 0
       IN  /\ indices' = s3.indices
           /\ calls' = s3.calls
           /\ extracted' = s3.extracted
           /\ IF break
              THEN /\ loop' = [loop EXCEPT !.nextIndex = nextIndex,
                                           !.beginIndex = loop.endIndex,
                                           !.polygonIndex = @ + 1]
                   /\ poly' = [poly EXCEPT !.finished = TRUE]
                   /\ pc' = "polygons"
              ELSE /\ loop' = [loop EXCEPT !.nextIndex = nextIndex]
                   /\ UNCHANGED <<poly, pc>>
    /\ UNCHANGED <<data, materials, textures, draco, isDracoMesh, materialTextureParts,
                   node, buildVars, threadVars, interfaceVars>>

\* beginIndex < data.polygonIndices.size() fails: return data.extracted
PolygonsEnd ==
    /\ pc = "polygons"
    /\ loop.beginIndex >= Len(data.polygonIndices)
    /\ pc' = "done"
    /\ UNCHANGED <<data, materials, textures, draco, isDracoMesh, indices, extracted,
                   materialTextureParts, loop, calls, poly, node, buildVars, threadVars, interfaceVars>>

Next ==
    \/ ChildrenEnd
    \/ ChildDracoMesh
    \/ DracoPoint
    \/ DracoPointsEnd
    \/ DracoFace
    \/ DracoFacesEnd
    \/ AfterChildren
    \/ BeginPolygon
    \/ Quad
    \/ FanStep
    \/ PolygonsEnd

Spec == InitExtract /\ [][Next]_vars

-----------------------------------------------------------------------------
(* FBXReader::extractMesh on nodes without DracoMesh child: the polygon loop alone *)

\* the attribute children of the nodes whose polygon loop is followed on its own
PolygonNodeInputs ==
    { <<GeomPlain, LayerNone(FALSE)>>, <<GeomSamePosition, LayerUV>>,
      <<GeomShort, LayerIndexed>> }

InitPolygonLoop ==
    /\ pc = "children"
    /\ \E n \in {<<i[1], i[2], stream>> : i \in PolygonNodeInputs, stream \in PolygonStreams}
                  \cup ExampleNodes :
          /\ data = MeshDataOf(n[1], n[2], n[3])
          /\ materials = n[1].materials
          /\ textures = n[1].textures
    /\ draco = NoDraco
    /\ node = NodeOf(<<>>)
    /\ isDracoMesh = FALSE
    /\ indices = <<>>
    /\ extracted = EmptyExtracted
    /\ materialTextureParts = <<>>
    /\ loop = EmptyLoop
    /\ calls = <<>>
    /\ poly = NoPoly
    /\ fbxMesh = NoFbxMesh
    /\ build = NoBuild
    /\ meshSet = FALSE
    /\ threads = NoThreads
    /\ meshIndex = NoCounters
    /\ highlighting = NoHighlighting
    /\ audio = NoAudio

NextPolygonLoop ==
    \/ ChildrenEnd
    \/ AfterChildren
    \/ BeginPolygon
    \/ Quad
    \/ FanStep
    \/ PolygonsEnd

SpecPolygonLoop == InitPolygonLoop /\ [][NextPolygonLoop]_vars

\* streams told apart by where their terminators are: a corner of source vertex 0
\* or a terminator of source vertex 0
TerminatorPatterns == SeqsUpTo({0, -1}, MaxStream)

InitTermination ==
    /\ pc = "children"
    /\ \E stream \in TerminatorPatterns :
          data = MeshDataOf(GeomPlain, LayerNone(FALSE), stream)
    /\ materials = <<>>
    /\ textures = <<>>
    /\ draco = NoDraco
    /\ node = NodeOf(<<>>)
    /\ isDracoMesh = FALSE
    /\ indices = <<>>
    /\ extracted = EmptyExtracted
    /\ materialTextureParts = <<>>
    /\ loop = EmptyLoop
    /\ calls = <<>>
    /\ poly = NoPoly
    /\ fbxMesh = NoFbxMesh
    /\ build = NoBuild
    /\ meshSet = FALSE
    /\ threads = NoThreads
    /\ meshIndex = NoCounters
    /\ highlighting = NoHighlighting
    /\ audio = NoAudio

\* the call runs on: a step that can be taken is taken
SpecTermination == InitTermination /\ [][NextPolygonLoop]_vars /\ WF_vars(NextPolygonLoop)

-----------------------------------------------------------------------------
(* FBXReader::extractMesh: the foreach over the children of the node *)

\* most children of the node
MaxChildren == 3

\* the children a node is drawn from; a child carries the sub-nodes the branch reads
VerticesChild == [name |-> "Vertices", vertices |-> <<P1, P2>>]

PolygonVertexIndexChildren ==
    { [name |-> "PolygonVertexIndex", indices |-> <<0, 1, -1>>],
      [name |-> "PolygonVertexIndex", indices |-> <<0, 1, 0, -2>>] }

\* ReferenceInformationType is IndexToDirect in both; one has a NormalsIndex sub-node
LayerElementNormalChildren ==
    { [name |-> "LayerElementNormal", hasNormals |-> TRUE, normals |-> <<N1, N2, N1>>,
       hasIndex |-> FALSE, normalsIndex |-> <<>>, byVertice |-> FALSE,
       indexToDirect |-> TRUE],
      [name |-> "LayerElementNormal", hasNormals |-> TRUE, normals |-> <<N1, N2>>,
       hasIndex |-> TRUE, normalsIndex |-> <<0, 1, 0>>, byVertice |-> FALSE,
       indexToDirect |-> TRUE] }

LayerElementColorChild ==
    [name |-> "LayerElementColor", hasColors |-> TRUE, colors |-> <<Col1, Col2, Col1>>,
     hasIndex |-> FALSE, colorsIndex |-> <<>>, byVertice |-> FALSE, indexToDirect |-> TRUE]

\* a colour layer with a ColorsIndex sub-node, addressed by corner through it
LayerElementColorIndexedChild ==
    [name |-> "LayerElementColor", hasColors |-> TRUE, colors |-> <<Col1, Col2>>,
     hasIndex |-> TRUE, colorsIndex |-> <<1, 0, 1>>, byVertice |-> FALSE,
     indexToDirect |-> TRUE]

\* LayerElementUV children: properties.at(0) is the channel, "Name" the set name
UVChild(channel, setName, uv) ==
    [name |-> "LayerElementUV", channel |-> channel, uvName |-> setName,
     hasUV |-> TRUE, uv |-> uv, hasUVIndex |-> FALSE, uvIndex |-> <<>>]

LayerElementUVChildren ==
    { UVChild(0, "a", <<U1, U2, U1>>), UVChild(1, "a", <<U2, U2, U2>>),
      UVChild(1, "b", <<U2, U1, U2>>) }

LayerElementMaterialChild == [name |-> "LayerElementMaterial", materials |-> <<1, 0>>]

LayerElementTextureChild == [name |-> "LayerElementTexture", textureId |-> <<0, 1>>]

\* a child no branch of the foreach names
OtherChild == [name |-> "Edges"]

Children ==
    {VerticesChild, LayerElementColorChild, LayerElementColorIndexedChild,
     LayerElementMaterialChild,
     LayerElementTextureChild, OtherChild, DracoMeshChild}
    \cup PolygonVertexIndexChildren \cup LayerElementNormalChildren
    \cup LayerElementUVChildren

\* what the decoder hands back for the payload of a DracoMesh child
DecodedExample ==
    [present |-> TRUE, numPoints |-> 2, faces |-> << <<0, 1, 0>> >>,
     hasPosition |-> TRUE, hasNormal |-> TRUE, hasTexCoord |-> FALSE,
     hasExtraTexCoord |-> FALSE, hasColor |-> FALSE, hasMatTex |-> TRUE]

HasDracoChild(children) == \E i \in 1 .. Len(children) : children[i].name = "DracoMesh"

\* MeshData data; the two bools have no initialiser
InitChildren ==
    /\ pc = "children"
    /\ \E children \in SeqsUpTo(Children, MaxChildren) :
          /\ node = NodeOf(children)
          /\ draco = IF HasDracoChild(children) THEN DecodedExample ELSE NoDraco
    /\ \E b \in BOOLEAN :
          data = MeshDataOf([vertices |-> <<>>], LayerNone(b), <<>>)
    /\ materials = <<>>
    /\ textures = <<>>
    /\ isDracoMesh = FALSE
    /\ indices = <<>>
    /\ extracted = EmptyExtracted
    /\ materialTextureParts = <<>>
    /\ loop = EmptyLoop
    /\ calls = <<>>
    /\ poly = NoPoly
    /\ fbxMesh = NoFbxMesh
    /\ build = NoBuild
    /\ meshSet = FALSE
    /\ threads = NoThreads
    /\ meshIndex = NoCounters
    /\ highlighting = NoHighlighting
    /\ audio = NoAudio

\* the child the foreach is at
Child == At(node.children, node.next)

Visiting(name) ==
    /\ pc = "children"
    /\ node.next < Len(node.children)
    /\ Child.name = name

NextChild == node' = [node EXCEPT !.next = @ + 1]

\* child.name == "Vertices"
ChildVertices ==
    /\ Visiting("Vertices")
    /\ data' = [data EXCEPT !.vertices = Child.vertices]
    /\ NextChild
    /\ UNCHANGED <<pc, materials, textures, draco, isDracoMesh, indices, extracted,
                   materialTextureParts, loop, calls, poly, buildVars, threadVars, interfaceVars>>

\* child.name == "PolygonVertexIndex"
ChildPolygonVertexIndex ==
    /\ Visiting("PolygonVertexIndex")
    /\ data' = [data EXCEPT !.polygonIndices = Child.indices]
    /\ NextChild
    /\ UNCHANGED <<pc, materials, textures, draco, isDracoMesh, indices, extracted,
                   materialTextureParts, loop, calls, poly, buildVars, threadVars, interfaceVars>>

\* child.name == "LayerElementNormal"
ChildLayerElementNormal ==
    /\ Visiting("LayerElementNormal")
    /\ LET normalIndices == IF Child.hasIndex THEN Child.normalsIndex ELSE data.normalIndices
       IN  data' = [data EXCEPT
                      !.normals = IF Child.hasNormals THEN Child.normals ELSE @,
                      !.normalIndices = normalIndices,
                      !.normalsByVertex =
                          Child.byVertice \/ (Child.indexToDirect /\ normalIndices = <<>>)]
    /\ NextChild
    /\ UNCHANGED <<pc, materials, textures, draco, isDracoMesh, indices, extracted,
                   materialTextureParts, loop, calls, poly, buildVars, threadVars, interfaceVars>>

\* child.name == "LayerElementColor"; the hack tests data.normalIndices
ChildLayerElementColor ==
    /\ Visiting("LayerElementColor")
    /\ data' = [data EXCEPT
                  !.colors = IF Child.hasColors THEN Child.colors ELSE @,
                  !.colorIndices = IF Child.hasIndex THEN Child.colorsIndex ELSE @,
                  !.colorsByVertex =
                      Child.byVertice \/ (Child.indexToDirect /\ data.normalIndices = <<>>)]
    /\ NextChild
    /\ UNCHANGED <<pc, materials, textures, draco, isDracoMesh, indices, extracted,
                   materialTextureParts, loop, calls, poly, buildVars, threadVars, interfaceVars>>

\* QHash::insert: a value already stored under the key is replaced
MapInsert(map, key, value) ==
    [k \in DOMAIN map \cup {key} |-> IF k = key THEN value ELSE map[k]]

\* the AttributeData a LayerElementUV child is read into
AttributeOf(child) ==
    [index |-> child.channel, name |-> child.uvName,
     texCoords |-> IF child.hasUV THEN child.uv ELSE <<>>,
     texCoordIndices |-> IF child.hasUVIndex THEN child.uvIndex ELSE <<>>]

\* child.name == "LayerElementUV"
ChildLayerElementUV ==
    /\ Visiting("LayerElementUV")
    /\ LET attrib == AttributeOf(Child)
       IN  IF Child.channel = 0
           THEN /\ data' = [data EXCEPT
                              !.texCoords = IF Child.hasUV THEN Child.uv ELSE @,
                              !.texCoordIndices =
                                  IF Child.hasUVIndex THEN Child.uvIndex ELSE @,
                              !.attributes = Append(@, attrib)]
                /\ extracted' =
                     [extracted EXCEPT
                        !.texcoordSetMap = MapInsert(@, attrib.name, Len(data.attributes))]
           ELSE IF attrib.name \notin DOMAIN extracted.texcoordSetMap
                THEN /\ data' = [data EXCEPT !.attributes = Append(@, attrib)]
                     /\ extracted' =
                          [extracted EXCEPT
                             !.texcoordSetMap =
                                 MapInsert(@, attrib.name, Len(data.attributes))]
                ELSE UNCHANGED <<data, extracted>>
    /\ NextChild
    /\ UNCHANGED <<pc, materials, textures, draco, isDracoMesh, indices,
                   materialTextureParts, loop, calls, poly, buildVars, threadVars, interfaceVars>>

\* child.name == "LayerElementMaterial"
ChildLayerElementMaterial ==
    /\ Visiting("LayerElementMaterial")
    /\ materials' = Child.materials
    /\ NextChild
    /\ UNCHANGED <<pc, data, textures, draco, isDracoMesh, indices, extracted,
                   materialTextureParts, loop, calls, poly, buildVars, threadVars, interfaceVars>>

\* child.name == "LayerElementTexture"
ChildLayerElementTexture ==
    /\ Visiting("LayerElementTexture")
    /\ textures' = Child.textureId
    /\ NextChild
    /\ UNCHANGED <<pc, data, materials, draco, isDracoMesh, indices, extracted,
                   materialTextureParts, loop, calls, poly, buildVars, threadVars, interfaceVars>>

\* a child no branch names is passed over
ChildIgnored ==
    /\ pc = "children"
    /\ node.next < Len(node.children)
    /\ Child.name \notin {"Vertices", "PolygonVertexIndex", "LayerElementNormal",
                          "LayerElementColor", "LayerElementUV", "LayerElementMaterial",
                          "LayerElementTexture", "DracoMesh"}
    /\ NextChild
    /\ UNCHANGED <<pc, data, materials, textures, draco, isDracoMesh, indices, extracted,
                   materialTextureParts, loop, calls, poly, buildVars, threadVars, interfaceVars>>

NextChildren ==
    \/ ChildVertices
    \/ ChildPolygonVertexIndex
    \/ ChildLayerElementNormal
    \/ ChildLayerElementColor
    \/ ChildLayerElementUV
    \/ ChildLayerElementMaterial
    \/ ChildLayerElementTexture
    \/ ChildIgnored
    \/ Next

SpecChildren == InitChildren /\ [][NextChildren]_vars

-----------------------------------------------------------------------------
(* FBXReader::extractMesh called from several threads *)

\* QPair<int, int> materialTexture of polygon number polygonIndex
MaterialTextureAt(mats, texs, polygonIndex) ==
    << IF polygonIndex < Len(mats) THEN At(mats, polygonIndex) ELSE 0,
       IF polygonIndex < Len(texs) THEN At(texs, polygonIndex) ELSE 0 >>

\* the fan loop of one polygon, run to its break, on st = [indices, extracted, calls]
RECURSIVE FanLoop(_, _, _, _, _)
FanLoop(d, st, p, beginIndex, nextIndex) ==
    LET c == FanCorners(beginIndex, nextIndex)
        s1 == appendIndex(d, st, p, "triangleIndices", c[1])
        s2 == appendIndex(d, s1, p, "triangleIndices", c[2])
        s3 == appendIndex(d, s2, p, "triangleIndices", c[3])
        n == nextIndex + 1
    IN  IF n >= Len(d.polygonIndices) \/ At(d.polygonIndices, n) < 0
        THEN s3
        ELSE FanLoop(d, s3, p, beginIndex, n)

\* the quad branch of one polygon
QuadBranch(d, st, p, b) ==
    LET s1 == appendIndex(d, st, p, "quadIndices", b)
        s2 == appendIndex(d, s1, p, "quadIndices", b + 1)
        s3 == appendIndex(d, s2, p, "quadIndices", b + 2)
        s4 == appendIndex(d, s3, p, "quadIndices", b + 3)
        quadIndices == s4.extracted.mesh.parts[p].quadIndices
        quadStartIndex == Len(quadIndices) - 4
    IN  [s4 EXCEPT !.extracted.mesh.parts[p].quadTrianglesIndices =
            @ \o QuadTriangles(At(quadIndices, quadStartIndex + 0),
                               At(quadIndices, quadStartIndex + 1),
                               At(quadIndices, quadStartIndex + 2),
                               At(quadIndices, quadStartIndex + 3))]

\* the polygon loop from polygon number polygonIndex at stream position beginIndex,
\* run to its end: the ExtractedMesh the call returns
RECURSIVE PolygonLoop(_, _, _, _, _, _, _)
PolygonLoop(d, mats, texs, st, mtp, polygonIndex, beginIndex) ==
    IF beginIndex >= Len(d.polygonIndices) THEN st.extracted
    ELSE LET endIndex == ScanEndIndex(d.polygonIndices, beginIndex)
             grabbed == GrabPart(mtp, st.extracted,
                                 MaterialTextureAt(mats, texs, polygonIndex))
             s0 == [st EXCEPT !.extracted = grabbed.ex]
         IN  IF endIndex - beginIndex = 4
             THEN PolygonLoop(d, mats, texs, QuadBranch(d, s0, grabbed.partIndex, beginIndex),
                              grabbed.mtp, polygonIndex + 1, beginIndex + 4)
             ELSE PolygonLoop(d, mats, texs,
                              FanLoop(d, s0, grabbed.partIndex, beginIndex, beginIndex + 1),
                              grabbed.mtp, polygonIndex + 1, endIndex)

\* extractMesh on a node without DracoMesh child, from its fresh MeshData
ExtractedOf(object) ==
    PolygonLoop(object.data, object.materials, object.textures,
                [indices |-> <<>>, extracted |-> EmptyExtracted, calls |-> <<>>],
                <<>>, 0, 0)

Threads == {1, 2}

\* the independent source nodes the calls work on
ThreadObjects ==
    { [data |-> MeshDataOf(GeomSquare, LayerNone(FALSE), <<0, 1, 2, -4>>),
       materials |-> <<>>, textures |-> <<>>],
      [data |-> MeshDataOf(GeomSamePosition, LayerUV, <<0, 1, -1, 1, -2>>),
       materials |-> GeomSamePosition.materials, textures |-> <<>>],
      [data |-> MeshDataOf(GeomShort, LayerIndexed, <<0, -2>>),
       materials |-> GeomShort.materials, textures |-> GeomShort.textures] }

\* the values the callers' counters start from
CounterStarts == {0, 7}

\* a plausible slip: the counter is handed on unchanged
PostIncrementNone(value) == value

\* meshIndex++: the value stored back
PostIncrement(value) == value + 1

\* two calls, on one counter of the caller or on a counter each
InitThreads ==
    /\ pc = "threads"
    /\ highlighting = NoHighlighting
    /\ audio = NoAudio
    /\ \E objects \in [Threads -> ThreadObjects], shared \in BOOLEAN,
          start \in CounterStarts :
          /\ threads = [t \in Threads |->
                          [pc |-> "call", object |-> objects[t],
                           counter |-> IF shared THEN 1 ELSE t, start |-> start,
                           read |-> 0, overlapped |-> FALSE,
                           result |-> [returned |-> FALSE]]]
          /\ meshIndex = [c \in (IF shared THEN {1} ELSE Threads) |-> start]
    /\ data = MeshDataOf(GeomPlain, LayerNone(FALSE), <<>>)
    /\ materials = <<>>
    /\ textures = <<>>
    /\ draco = NoDraco
    /\ isDracoMesh = FALSE
    /\ indices = <<>>
    /\ extracted = EmptyExtracted
    /\ materialTextureParts = <<>>
    /\ loop = EmptyLoop
    /\ calls = <<>>
    /\ poly = NoPoly
    /\ node = NodeOf(<<>>)
    /\ fbxMesh = NoFbxMesh
    /\ build = NoBuild
    /\ meshSet = FALSE

\* another call on the same counter has read it and not yet stored it back
ReadInFlight(t) ==
    \E u \in Threads \ {t} :
       threads[u].counter = threads[t].counter /\ threads[u].pc = "increment"

\* meshIndex++, first half: the unsynchronised read of the caller's counter
ThreadReadMeshIndex(t) ==
    /\ threads[t].pc = "call"
    /\ threads' =
         [u \in Threads |->
            IF u = t
            THEN [threads[t] EXCEPT !.pc = "increment",
                                    !.read = meshIndex[threads[t].counter],
                                    !.overlapped = ReadInFlight(t)]
            ELSE IF threads[u].counter = threads[t].counter /\ threads[u].pc = "increment"
                 THEN [threads[u] EXCEPT !.overlapped = TRUE]
                 ELSE threads[u]]
    /\ UNCHANGED <<pc, meshIndex, extractVars, buildVars, interfaceVars>>

\* meshIndex++, second half, and data.extracted.mesh.meshIndex = <the value read>
ThreadIncrementMeshIndex(t) ==
    /\ threads[t].pc = "increment"
    /\ meshIndex' = [meshIndex EXCEPT ![threads[t].counter] = PostIncrement(threads[t].read)]
    /\ threads' = [threads EXCEPT ![t].pc = "extract"]
    /\ UNCHANGED <<pc, extractVars, buildVars, interfaceVars>>

\* the rest of the call, on its own MeshData, materials, textures and hash
ThreadExtract(t) ==
    /\ threads[t].pc = "extract"
    /\ threads' =
         [threads EXCEPT
            ![t].pc = "returned",
            ![t].result = [returned |-> TRUE, meshIndex |-> threads[t].read,
                           extracted |-> ExtractedOf(threads[t].object)]]
    /\ UNCHANGED <<pc, meshIndex, extractVars, buildVars, interfaceVars>>

NextThreads ==
    \E t \in Threads :
       \/ ThreadReadMeshIndex(t)
       \/ ThreadIncrementMeshIndex(t)
       \/ ThreadExtract(t)

SpecThreads == InitThreads /\ [][NextThreads]_vars

-----------------------------------------------------------------------------
(* FBXReader::buildModelMesh *)

UINT8_MAX == 255
SizeofVec3 == 12
SizeofVec2 == 8
SizeofUint8 == 1
SizeofInt == 4

\* the bytes of a source array: byte k of the array called name
SourceBytes(name, size) == [k \in 1 .. size |-> <<name, k - 1>>]

\* (uint8_t) of each cluster index: the narrowed 8-bit copy
NarrowedBytes(clusterIndices) ==
    [k \in 1 .. Len(clusterIndices) |-> <<"byte", clusterIndices[k] % 256>>]

\* the bytes of the QVector<uint16_t> itself (low byte first)
RawUint16Bytes(clusterIndices) ==
    [k \in 1 .. 2 * Len(clusterIndices) |->
        LET v == clusterIndices[(k + 1) \div 2]
        IN  <<"byte", IF k % 2 = 1 THEN v % 256 ELSE v \div 256>>]

\* gpu::Buffer::setSubData(offset, size, data): size bytes of data written at offset
SetSubData(buffer, offset, size, bytes) ==
    [k \in 1 .. Len(buffer) |->
        IF k > offset /\ k <= offset + size THEN bytes[k - offset] ELSE buffer[k]]

\* a plausible slip: 16 bits from 255 clusters on
ClusterIndexBytesFrom255(numClusters) ==
    IF numClusters >= UINT8_MAX THEN 2 * SizeofUint8 ELSE SizeofUint8

\* bytes per cluster index in clusterIndicesSize: doubled if clusters.size() > UINT8_MAX
ClusterIndexBytes(numClusters) ==
    IF numClusters > UINT8_MAX THEN 2 * SizeofUint8 ELSE SizeofUint8

\* if (fbxMesh.clusters.size() < UINT8_MAX): the 8-bit copy and the UINT8 format
FitsIn8Bits(numClusters) == numClusters < UINT8_MAX

\* cluster counts around the 8-bit limit
ClusterCounts == {1, 254, 255, 256, 257}

TrianglePart(q, t) ==
    [quadIndices |-> <<>>, quadTrianglesIndices |-> q, triangleIndices |-> t]

\* the part lists of the meshes handed to buildModelMesh
PartLists ==
    { <<>>,
      <<EmptyPart>>,
      <<TrianglePart(<<>>, <<0, 1, 2>>)>>,
      <<TrianglePart(<<0, 1, 3, 1, 2, 3>>, <<4, 5, 6>>), EmptyPart,
        TrianglePart(<<>>, <<7, 8, 9>>)>> }

\* an FBXMesh with numVertices vertices; a holds which per-vertex arrays are present
FbxMeshOf(numVertices, a, numClusters, parts) ==
    [given |-> TRUE,
     vertices |-> numVertices,
     normals |-> IF a[1] THEN numVertices ELSE 0,
     tangents |-> IF a[2] THEN numVertices ELSE 0,
     colors |-> IF a[3] THEN numVertices ELSE 0,
     texCoords |-> IF a[4] THEN numVertices ELSE 0,
     texCoords1 |-> IF a[5] THEN numVertices ELSE 0,
     clusters |-> numClusters,
     clusterIndices |->
        IF a[6]
        THEN [k \in 1 .. 4 * numVertices |->
                 IF k % 4 = 1 /\ numClusters > 0 THEN numClusters - 1 ELSE 0]
        ELSE <<>>,
     clusterWeights |-> IF a[7] THEN 4 * numVertices ELSE 0,
     parts |-> parts]

NoAttributes == <<>>

NewMesh ==
    [vertexBuffer |-> <<>>, attributes |-> NoAttributes, indexBuffer |-> <<>>,
     partBuffer |-> <<>>]

InitBuild ==
    /\ pc = "build"
    /\ \E numVertices \in 0 .. MaxVerts, a \in [1 .. 7 -> BOOLEAN],
          numClusters \in ClusterCounts \cup {0}, parts \in PartLists :
          fbxMesh = FbxMeshOf(numVertices, a, numClusters, parts)
    /\ build = NoBuild
    /\ meshSet = FALSE
    /\ data = MeshDataOf(GeomPlain, LayerNone(FALSE), <<>>)
    /\ materials = <<>>
    /\ textures = <<>>
    /\ draco = NoDraco
    /\ isDracoMesh = FALSE
    /\ indices = <<>>
    /\ extracted = EmptyExtracted
    /\ materialTextureParts = <<>>
    /\ loop = EmptyLoop
    /\ calls = <<>>
    /\ poly = NoPoly
    /\ node = NodeOf(<<>>)
    /\ threads = NoThreads
    /\ meshIndex = NoCounters
    /\ highlighting = NoHighlighting
    /\ audio = NoAudio

RECURSIVE TotalIndices(_)
TotalIndices(parts) ==
    IF parts = <<>> THEN 0
    ELSE Len(Head(parts).quadTrianglesIndices) + Len(Head(parts).triangleIndices)
         + TotalIndices(Tail(parts))

\* a plausible slip: the "no vertices" check is left out
ValidMeshIndicesOnly(m) == TotalIndices(m.parts) # 0

\* the two early returns at the top: "no indices", "no vertices"
ValidMesh(m) == TotalIndices(m.parts) # 0 /\ m.vertices # 0

\* the checks at the top, then model::MeshPointer mesh(new model::Mesh()) and its vertex buffer
BuildValidate ==
    /\ pc = "build"
    /\ IF ValidMesh(fbxMesh)
       THEN /\ build' = [started |-> TRUE,
                         mesh |-> [NewMesh EXCEPT !.vertexBuffer =
                                     SourceBytes("vertices", fbxMesh.vertices * SizeofVec3)]]
            /\ pc' = "buildSizes"
       ELSE /\ build' = build
            /\ pc' = "buildFailed"
    /\ UNCHANGED <<fbxMesh, meshSet, extractVars, threadVars, interfaceVars>>

\* a plausible slip: the size of the preceding region is left out
NextOffsetSame(offset, size) == offset

\* the offset of a region: the preceding region's offset plus its size
NextOffset(offset, size) == offset + size

\* evaluate all attribute channels sizes, and their offsets
BuildSizes ==
    /\ pc = "buildSizes"
    /\ LET normalsSize == fbxMesh.normals * SizeofVec3
           tangentsSize == fbxMesh.tangents * SizeofVec3
           colorsSize == fbxMesh.colors * SizeofVec3
           texCoordsSize == fbxMesh.texCoords * SizeofVec2
           texCoords1Size == fbxMesh.texCoords1 * SizeofVec2
           clusterIndicesSize ==
               Len(fbxMesh.clusterIndices) * ClusterIndexBytes(fbxMesh.clusters)
           clusterWeightsSize == fbxMesh.clusterWeights * SizeofUint8
           normalsOffset == 0
           tangentsOffset == NextOffset(normalsOffset, normalsSize)
           colorsOffset == NextOffset(tangentsOffset, tangentsSize)
           texCoordsOffset == NextOffset(colorsOffset, colorsSize)
           texCoords1Offset == NextOffset(texCoordsOffset, texCoordsSize)
           clusterIndicesOffset == NextOffset(texCoords1Offset, texCoords1Size)
           clusterWeightsOffset == NextOffset(clusterIndicesOffset, clusterIndicesSize)
           totalAttributeSize == NextOffset(clusterWeightsOffset, clusterWeightsSize)
       IN  build' = build @@
             [normalsSize |-> normalsSize, tangentsSize |-> tangentsSize,
              colorsSize |-> colorsSize, texCoordsSize |-> texCoordsSize,
              texCoords1Size |-> texCoords1Size,
              clusterIndicesSize |-> clusterIndicesSize,
              clusterWeightsSize |-> clusterWeightsSize,
              normalsOffset |-> normalsOffset, tangentsOffset |-> tangentsOffset,
              colorsOffset |-> colorsOffset, texCoordsOffset |-> texCoordsOffset,
              texCoords1Offset |-> texCoords1Offset,
              clusterIndicesOffset |-> clusterIndicesOffset,
              clusterWeightsOffset |-> clusterWeightsOffset,
              totalAttributeSize |-> totalAttributeSize]
    /\ pc' = "buildCopy"
    /\ UNCHANGED <<fbxMesh, meshSet, extractVars, threadVars, interfaceVars>>

\* copy all attribute data in a single attribute buffer
BuildCopy ==
    /\ pc = "buildCopy"
    /\ LET b0 == [k \in 1 .. build.totalAttributeSize |-> <<"unset", 0>>]
           b1 == SetSubData(b0, build.normalsOffset, build.normalsSize,
                            SourceBytes("normals", build.normalsSize))
           b2 == SetSubData(b1, build.tangentsOffset, build.tangentsSize,
                            SourceBytes("tangents", build.tangentsSize))
           b3 == SetSubData(b2, build.colorsOffset, build.colorsSize,
                            SourceBytes("colors", build.colorsSize))
           b4 == SetSubData(b3, build.texCoordsOffset, build.texCoordsSize,
                            SourceBytes("texCoords", build.texCoordsSize))
           b5 == SetSubData(b4, build.texCoords1Offset, build.texCoords1Size,
                            SourceBytes("texCoords1", build.texCoords1Size))
           narrowed == FitsIn8Bits(fbxMesh.clusters)
           b6 == SetSubData(b5, build.clusterIndicesOffset, build.clusterIndicesSize,
                            IF narrowed THEN NarrowedBytes(fbxMesh.clusterIndices)
                            ELSE RawUint16Bytes(fbxMesh.clusterIndices))
           b7 == SetSubData(b6, build.clusterWeightsOffset, build.clusterWeightsSize,
                            SourceBytes("clusterWeights", build.clusterWeightsSize))
       IN  build' = build @@ [attribBuffer |-> b7,
                              copiedIndexBytes |-> IF narrowed THEN 1 ELSE 2]
    /\ pc' = "buildAttach"
    /\ UNCHANGED <<fbxMesh, meshSet, extractVars, threadVars, interfaceVars>>

BufferView(offset, size, dimension, type) ==
    [offset |-> offset, size |-> size, dimension |-> dimension, type |-> type]

\* a plausible slip: the attribute is attached without its size test
AddAttributeAlways(attributes, present, slot, view) == attributes @@ (slot :> view)

\* mesh->addAttribute(slot, view) when present
AddAttribute(attributes, present, slot, view) ==
    IF present THEN attributes @@ (slot :> view) ELSE attributes

\* a plausible slip: no alias, TEXCOORD1 only when texCoords1 is there
TexCoord1AttributeOwnOnly(attributes, b) ==
    AddAttribute(attributes, b.texCoords1Size # 0, "TEXCOORD1",
                 BufferView(b.texCoords1Offset, b.texCoords1Size, "VEC2", "FLOAT"))

\* if (texCoords1Size) { TEXCOORD1 own region } else if (texCoordsSize) { TEXCOORD1 = UV0 region }
TexCoord1Attribute(attributes, b) ==
    IF b.texCoords1Size # 0
    THEN AddAttribute(attributes, TRUE, "TEXCOORD1",
                      BufferView(b.texCoords1Offset, b.texCoords1Size, "VEC2", "FLOAT"))
    ELSE AddAttribute(attributes, b.texCoordsSize # 0, "TEXCOORD1",
                      BufferView(b.texCoordsOffset, b.texCoordsSize, "VEC2", "FLOAT"))

\* the addAttribute calls, each under its "if (<size>)"
BuildAttach ==
    /\ pc = "buildAttach"
    /\ LET a1 == AddAttribute(NoAttributes, build.normalsSize # 0, "NORMAL",
                    BufferView(build.normalsOffset, build.normalsSize, "VEC3", "FLOAT"))
           a2 == AddAttribute(a1, build.tangentsSize # 0, "TANGENT",
                    BufferView(build.tangentsOffset, build.tangentsSize, "VEC3", "FLOAT"))
           a3 == AddAttribute(a2, build.colorsSize # 0, "COLOR",
                    BufferView(build.colorsOffset, build.colorsSize, "VEC3", "FLOAT"))
           a4 == AddAttribute(a3, build.texCoordsSize # 0, "TEXCOORD",
                    BufferView(build.texCoordsOffset, build.texCoordsSize, "VEC2", "FLOAT"))
           a5 == TexCoord1Attribute(a4, build)
           a6 == AddAttribute(a5, build.clusterIndicesSize # 0, "SKIN_CLUSTER_INDEX",
                    BufferView(build.clusterIndicesOffset, build.clusterIndicesSize, "VEC4",
                               IF FitsIn8Bits(fbxMesh.clusters) THEN "UINT8" ELSE "UINT16"))
           a7 == AddAttribute(a6, build.clusterWeightsSize # 0, "SKIN_CLUSTER_WEIGHT",
                    BufferView(build.clusterWeightsOffset, build.clusterWeightsSize,
                               "VEC4", "NUINT8"))
       IN  build' = [build EXCEPT !.mesh.attributes = a7]
    /\ pc' = "buildIndices"
    /\ UNCHANGED <<fbxMesh, meshSet, extractVars, threadVars, interfaceVars>>

\* the second count of the indices, and the index buffer resized to hold them
BuildIndices ==
    /\ pc = "buildIndices"
    /\ LET totalIndices == TotalIndices(fbxMesh.parts)
       IN  IF totalIndices = 0
           THEN pc' = "buildFailed" /\ build' = build
           ELSE /\ build' = build @@
                     [totalIndices |-> totalIndices,
                      indexBuffer |-> [k \in 1 .. totalIndices |-> -1],
                      indexNum |-> 0, offset |-> 0, parts |-> <<>>, partNo |-> 0]
                /\ pc' = "buildParts"
    /\ UNCHANGED <<fbxMesh, meshSet, extractVars, threadVars, interfaceVars>>

\* a plausible slip: the byte offset is taken for a slot number
SetIndicesAtByteSlot(buffer, offset, list) ==
    [k \in 1 .. Len(buffer) |->
        LET slot == k - 1 - offset
        IN  IF slot >= 0 /\ slot < Len(list) THEN At(list, slot) ELSE buffer[k]]

\* indexBuffer->setSubData(offset, n * sizeof(int), indices): int slots from a byte offset
SetIndices(buffer, offset, list) ==
    [k \in 1 .. Len(buffer) |->
        LET slot == k - 1 - (offset \div SizeofInt)
        IN  IF slot >= 0 /\ slot < Len(list) THEN At(list, slot) ELSE buffer[k]]

\* one iteration of: foreach(const FBXMeshPart& part, extractedMesh.parts)
BuildPart ==
    /\ pc = "buildParts"
    /\ build.partNo < Len(fbxMesh.parts)
    /\ LET part == At(fbxMesh.parts, build.partNo)
           q == part.quadTrianglesIndices
           t == part.triangleIndices
           buffer1 == IF Len(q) # 0 THEN SetIndices(build.indexBuffer, build.offset, q)
                      ELSE build.indexBuffer
           offset1 == build.offset + Len(q) * SizeofInt
           buffer2 == IF Len(t) # 0 THEN SetIndices(buffer1, offset1, t) ELSE buffer1
           offset2 == offset1 + Len(t) * SizeofInt
           modelPart == [startIndex |-> build.indexNum, numIndices |-> Len(q) + Len(t),
                         baseVertex |-> 0, topology |-> "TRIANGLES"]
       IN  build' = [build EXCEPT !.indexBuffer = buffer2,
                                  !.offset = offset2,
                                  !.indexNum = @ + Len(q) + Len(t),
                                  !.parts = Append(@, modelPart),
                                  !.partNo = @ + 1]
    /\ UNCHANGED <<pc, fbxMesh, meshSet, extractVars, threadVars, interfaceVars>>

\* setIndexBuffer, setPartBuffer (or "no parts"), evalPartBound(0), extractedMesh._mesh = mesh
BuildFinish ==
    /\ pc = "buildParts"
    /\ build.partNo >= Len(fbxMesh.parts)
    /\ IF Len(build.parts) # 0
       THEN /\ build' = [build EXCEPT !.mesh.indexBuffer = build.indexBuffer,
                                      !.mesh.partBuffer = build.parts]
            /\ meshSet' = TRUE
            /\ pc' = "buildDone"
       ELSE /\ build' = [build EXCEPT !.mesh.indexBuffer = build.indexBuffer]
            /\ meshSet' = meshSet
            /\ pc' = "buildFailed"
    /\ UNCHANGED <<fbxMesh, extractVars, threadVars, interfaceVars>>

NextBuild ==
    \/ BuildValidate
    \/ BuildSizes
    \/ BuildCopy
    \/ BuildAttach
    \/ BuildIndices
    \/ BuildPart
    \/ BuildFinish

SpecBuild == InitBuild /\ [][NextBuild]_vars

-----------------------------------------------------------------------------
(* Claims about the vertex deduplication index (appendIndex) *)

PolygonPath == ~draco.present

CallKey(c) == Vertex(c.vertexIndex, c.texCoord, c.texCoord1)

RECURSIVE CallOuts(_, _, _)
\* the output indices the calls appended to list <list> of part p, in call order
CallOuts(cs, p, list) ==
    IF cs = <<>> THEN <<>>
    ELSE (IF Head(cs).part = p /\ Head(cs).list = list THEN <<Head(cs).out>> ELSE <<>>)
         \o CallOuts(Tail(cs), p, list)

\* C1: two corners resolved by appendIndex with the same decoded source vertex
\* index, the same resolved primary UV and the same resolved secondary UV get the
\* same output vertex index, and that index is what is appended to the index list.
C1_SameIdentitySameIndex ==
    /\ \A i, j \in 1 .. Len(calls) :
          CallKey(calls[i]) = CallKey(calls[j]) => calls[i].out = calls[j].out
    /\ \A p \in 1 .. Len(extracted.mesh.parts) :
          PolygonPath =>
          /\ extracted.mesh.parts[p].quadIndices = CallOuts(calls, p, "quadIndices")
          /\ extracted.mesh.parts[p].triangleIndices = CallOuts(calls, p, "triangleIndices")

\* two corners of different polygons share an identity key and an output index
C1_Witness ==
    /\ pc = "done"
    /\ \E i, j \in 1 .. Len(calls) :
          /\ i < j
          /\ CallKey(calls[i]) = CallKey(calls[j])
          /\ calls[i].texCoord # Zero2
          /\ calls[i].part # calls[j].part
          /\ calls[i].out = calls[j].out

RECURSIVE SumNormals(_, _)
\* the unnormalized sum of the normals of the calls that returned output index j
SumNormals(cs, j) ==
    IF cs = <<>> THEN Zero3
    ELSE Add3(IF Head(cs).out = j THEN Head(cs).normal ELSE Zero3, SumNormals(Tail(cs), j))

CallsReturning(j) == {k \in 1 .. Len(calls) : calls[k].out = j}

\* C2: on the polygon path the normal stored for an output vertex is the sum of the
\* normals resolved by every appendIndex call that returned that output index, each
\* call counted once.
C2_NormalIsSumOfCalls ==
    PolygonPath =>
       /\ Len(extracted.mesh.normals) = Len(extracted.mesh.vertices)
       /\ \A j \in 0 .. Len(extracted.mesh.vertices) - 1 :
             At(extracted.mesh.normals, j) = SumNormals(calls, j)

\* an output vertex hit by three calls, two of them of the same polygon, whose
\* normals add up to more than one of them
C2_Witness ==
    /\ pc = "done"
    /\ \E j \in 0 .. Len(extracted.mesh.vertices) - 1 :
          /\ Cardinality(CallsReturning(j)) >= 3
          /\ \E a, b \in CallsReturning(j) : a + 1 < b /\ calls[a].normal # calls[b].normal
          /\ \E a \in CallsReturning(j) :
                calls[a].normal # Zero3 /\ At(extracted.mesh.normals, j) # calls[a].normal

\* C3: two corners with the same source vertex index whose primary or secondary UV
\* differ get distinct output vertex indices, each with its own entry (its position,
\* its UVs) in the vertex, normal and UV arrays.
C3_SeamDuplicates ==
    \A i, j \in 1 .. Len(calls) :
       ( /\ calls[i].vertexIndex = calls[j].vertexIndex
         /\ \/ calls[i].texCoord # calls[j].texCoord
            \/ calls[i].texCoord1 # calls[j].texCoord1 )
       => /\ calls[i].out # calls[j].out
          /\ \A c \in {calls[i], calls[j]} :
                /\ c.out >= 0
                /\ c.out < Len(extracted.mesh.vertices)
                /\ c.out < Len(extracted.mesh.normals)
                /\ c.out < Len(extracted.mesh.texCoords)
                /\ At(extracted.mesh.vertices, c.out) = c.position
                /\ At(extracted.mesh.texCoords, c.out) = c.texCoord
                /\ HasMoreTexcoords(data) =>
                      /\ c.out < Len(extracted.mesh.texCoords1)
                      /\ At(extracted.mesh.texCoords1, c.out) = c.texCoord1

\* one source vertex resolved with two primary UVs, and one with two secondary UVs
C3_Witness ==
    /\ pc = "done"
    /\ \E i, j \in 1 .. Len(calls) :
          /\ calls[i].vertexIndex = calls[j].vertexIndex
          /\ calls[i].texCoord # calls[j].texCoord
          /\ calls[i].texCoord1 = calls[j].texCoord1
          /\ calls[i].out # calls[j].out
    /\ \E i, j \in 1 .. Len(calls) :
          /\ calls[i].vertexIndex = calls[j].vertexIndex
          /\ calls[i].texCoord = calls[j].texCoord
          /\ calls[i].texCoord1 # calls[j].texCoord1
          /\ calls[i].out # calls[j].out

\* the (position, primary UV, secondary UV) of output vertex j
OutputCombination(j) ==
    << At(extracted.mesh.vertices, j), At(extracted.mesh.texCoords, j),
       IF j < Len(extracted.mesh.texCoords1) THEN At(extracted.mesh.texCoords1, j) ELSE Zero2 >>

\* C4 as stated: after extractMesh on the polygon path no two distinct output
\* vertices have the same (position, primary UV, secondary UV) combination.
C4_NoDuplicateCombination ==
    (PolygonPath /\ pc = "done") =>
       \A j1, j2 \in 0 .. Len(extracted.mesh.vertices) - 1 :
          j1 # j2 => OutputCombination(j1) # OutputCombination(j2)

CreatingCalls == {k \in 1 .. Len(calls) : calls[k].isNew}

\* C4 as amended: no two distinct output vertices have the same identity key (source
\* vertex index, primary UV, secondary UV): every output vertex was created by exactly
\* one call, and the creating calls have pairwise distinct keys.
C4_NoDuplicateIdentity ==
    PolygonPath =>
       /\ Cardinality(CreatingCalls) = Len(extracted.mesh.vertices)
       /\ \A a, b \in CreatingCalls :
             a # b => /\ calls[a].out # calls[b].out
                      /\ CallKey(calls[a]) # CallKey(calls[b])

\* a key with non-zero UVs resolved twice, and two output vertices at one position
\* with the same UVs
C4_Witness ==
    /\ pc = "done"
    /\ PolygonPath
    /\ \E i \in CreatingCalls, j \in 1 .. Len(calls) :
          /\ i < j
          /\ ~calls[j].isNew
          /\ CallKey(calls[i]) = CallKey(calls[j])
          /\ calls[i].texCoord1 # Zero2
    /\ \E a, b \in CreatingCalls :
          /\ a # b
          /\ calls[a].position = calls[b].position
          /\ calls[a].texCoord = calls[b].texCoord

-----------------------------------------------------------------------------
(* Claims about the polygon loop of extractMesh *)

\* the output index of the corner at stream position index: its key's hash entry
ResolvedIndex(index) ==
    LET v == CornerVertex(data, index)
    IN  IF v \in DOMAIN indices THEN indices[v] ELSE -1

\* a polygon has just been processed whole
PolygonFinished(kind) == poly.kind = kind /\ poly.finished

PartOfPolygon == extracted.mesh.parts[poly.part]

\* C5: a polygon whose span is exactly 4 entries (A,B,C,D) appends the four
\* resolved indices to the part's quadIndices, exactly (A,B,D),(B,C,D) to the part's
\* quadTrianglesIndices and nothing to its triangleIndices; each of the four corners
\* is resolved exactly once.
C5_QuadSplit ==
    PolygonFinished("quad") =>
       LET A == ResolvedIndex(poly.begin)
           B == ResolvedIndex(poly.begin + 1)
           C == ResolvedIndex(poly.begin + 2)
           D == ResolvedIndex(poly.begin + 3)
       IN  /\ poly.end - poly.begin = 4
           /\ PartOfPolygon.quadIndices = poly.before.quadIndices \o <<A, B, C, D>>
           /\ PartOfPolygon.quadTrianglesIndices =
                 poly.before.quadTrianglesIndices \o <<A, B, D, B, C, D>>
           /\ PartOfPolygon.triangleIndices = poly.before.triangleIndices
           /\ Len(calls) = poly.callsBefore + 4
           /\ \A k \in 0 .. 3 : calls[poly.callsBefore + 1 + k].index = poly.begin + k

\* the concrete scenario: the square [0,1,2,-4] gives four output vertices equal to
\* the inputs, one part, and the quad-triangle list [0,1,3,1,2,3]
C5_Witness ==
    /\ pc = "done"
    /\ PolygonFinished("quad")
    /\ data.polygonIndices = <<0, 1, 2, -4>>
    /\ extracted.mesh.vertices = data.vertices
    /\ Len(extracted.mesh.vertices) = 4
    /\ Len(extracted.mesh.parts) = 1
    /\ extracted.mesh.parts[1].quadTrianglesIndices = <<0, 1, 3, 1, 2, 3>>

RECURSIVE FanTriangles(_, _, _)
\* the triangles (c0, ci, c(i+1)) for i = i .. n-2 of the polygon starting at begin
FanTriangles(begin, i, n) ==
    IF i > n - 2 THEN <<>>
    ELSE << ResolvedIndex(begin), ResolvedIndex(begin + i), ResolvedIndex(begin + i + 1) >>
         \o FanTriangles(begin, i + 1, n)

PolygonTerminated == At(data.polygonIndices, poly.end - 1) < 0

\* C6: a terminated polygon with N corners, N >= 3 and N # 4, appends to the part's
\* triangleIndices exactly the N-2 triangles (c0, ci, c(i+1)), i = 1..N-2 in
\* increasing i, and nothing to the quad lists.
C6_FanTriangulation ==
    ( /\ PolygonFinished("fan")
      /\ PolygonTerminated
      /\ poly.end - poly.begin >= 3 )
    => /\ poly.end - poly.begin # 4
       /\ PartOfPolygon.triangleIndices =
             poly.before.triangleIndices \o FanTriangles(poly.begin, 1, poly.end - poly.begin)
       /\ PartOfPolygon.quadIndices = poly.before.quadIndices
       /\ PartOfPolygon.quadTrianglesIndices = poly.before.quadTrianglesIndices

\* the pentagon (A,B,C,D,E) gives (A,B,C),(A,C,D),(A,D,E)
C6_Witness ==
    /\ pc = "done"
    /\ PolygonFinished("fan")
    /\ data.polygonIndices = <<0, 1, 2, 3, -5>>
    /\ extracted.mesh.parts[1].triangleIndices = <<0, 1, 2, 0, 2, 3, 0, 3, 4>>

PerVertexArrays ==
    { extracted.mesh.normals, extracted.mesh.texCoords, extracted.mesh.texCoords1,
      extracted.mesh.colors }

\* C7: in the ExtractedMesh returned by extractMesh, by either path and for any
\* combination of present and absent attributes, each of normals, texCoords,
\* texCoords1 and colors is empty or as long as the vertices array.
C7_ArrayLengths ==
    pc = "done" =>
       \A array \in PerVertexArrays :
          array = <<>> \/ Len(array) = Len(extracted.mesh.vertices)

-----------------------------------------------------------------------------
(* Claims about buildModelMesh *)

\* C8: buildModelMesh leaves _mesh unset whenever the parts hold no triangle or
\* quad-triangle index or the vertices array is empty; no vertex, attribute, index
\* or part buffer is attached then (no model::Mesh is made at all).
C8_EmptyMeshRejected ==
    ( /\ fbxMesh.given
      /\ pc # "build"
      /\ TotalIndices(fbxMesh.parts) = 0 \/ fbxMesh.vertices = 0 )
    => /\ pc = "buildFailed"
       /\ ~meshSet
       /\ build = NoBuild

\* a mesh with indices rejected for its empty vertices array alone
C8_Witness ==
    /\ pc = "buildFailed"
    /\ fbxMesh.vertices = 0
    /\ TotalIndices(fbxMesh.parts) # 0
    /\ ~meshSet

SizesComputed == "clusterIndicesSize" \in DOMAIN build

\* C9: the byte size reserved for the skin-cluster indices is 1 byte per index with
\* 255 or fewer clusters and 2 bytes per index with 256 or more.
C9_ClusterIndexWidth ==
    SizesComputed =>
       build.clusterIndicesSize =
          Len(fbxMesh.clusterIndices) * (IF fbxMesh.clusters <= 255 THEN 1 ELSE 2)

\* exactly 255 clusters: one byte per index
C9_Witness ==
    /\ SizesComputed
    /\ fbxMesh.clusters = 255
    /\ Len(fbxMesh.clusterIndices) > 0
    /\ build.clusterIndicesSize = Len(fbxMesh.clusterIndices)

FormatBytes(type) == IF type = "UINT8" THEN 1 ELSE 2

\* C10: one width decision is used throughout: the bytes per index of
\* clusterIndicesSize, the data copied (8-bit copy or the 16-bit array) and the
\* element format of SKIN_CLUSTER_INDEX (UINT8 or UINT16) agree, for every cluster
\* count, 255 included.
C10_OneWidthDecision ==
    ( /\ "attribBuffer" \in DOMAIN build
      /\ "SKIN_CLUSTER_INDEX" \in DOMAIN build.mesh.attributes )
    => /\ build.clusterIndicesSize = Len(fbxMesh.clusterIndices) * build.copiedIndexBytes
       /\ FormatBytes(build.mesh.attributes["SKIN_CLUSTER_INDEX"].type)
             = build.copiedIndexBytes

-----------------------------------------------------------------------------
(* Claims about the attribute and index buffers of buildModelMesh *)

BuildSucceeded == pc = "buildDone"

\* the bytes of the attribute buffer a view covers
RegionBytes(view) ==
    [k \in 1 .. view.size |-> build.attribBuffer[view.offset + k]]

Attached(slot) == slot \in DOMAIN build.mesh.attributes

AttributeView(slot) == build.mesh.attributes[slot]

\* C11: when buildModelMesh succeeds with texCoords non-empty and texCoords1 empty,
\* TEXCOORD1 has the byte offset and byte size of TEXCOORD, so its region is byte for
\* byte the UV0 region; with texCoords1 non-empty TEXCOORD1 has its own region right
\* after UV0.
C11_TexCoord1Alias ==
    BuildSucceeded =>
       /\ (fbxMesh.texCoords # 0 /\ fbxMesh.texCoords1 = 0) =>
             /\ Attached("TEXCOORD") /\ Attached("TEXCOORD1")
             /\ AttributeView("TEXCOORD1").offset = AttributeView("TEXCOORD").offset
             /\ AttributeView("TEXCOORD1").size = AttributeView("TEXCOORD").size
             /\ RegionBytes(AttributeView("TEXCOORD1")) =
                   SourceBytes("texCoords", fbxMesh.texCoords * SizeofVec2)
       /\ fbxMesh.texCoords1 # 0 =>
             /\ Attached("TEXCOORD1")
             /\ AttributeView("TEXCOORD1").offset =
                   build.texCoordsOffset + fbxMesh.texCoords * SizeofVec2
             /\ AttributeView("TEXCOORD1").size = fbxMesh.texCoords1 * SizeofVec2
             /\ RegionBytes(AttributeView("TEXCOORD1")) =
                   SourceBytes("texCoords1", fbxMesh.texCoords1 * SizeofVec2)

\* normals, colors and UV0 present, UV1 absent: the UV1 region is the UV0 region
C11_Witness ==
    /\ BuildSucceeded
    /\ fbxMesh.normals # 0 /\ fbxMesh.colors # 0
    /\ fbxMesh.texCoords # 0 /\ fbxMesh.texCoords1 = 0
    /\ RegionBytes(AttributeView("TEXCOORD1")) = RegionBytes(AttributeView("TEXCOORD"))
    /\ AttributeView("TEXCOORD1").offset > 0

\* the byte sizes of the seven regions, in layout order, from the source arrays
RegionSizes ==
    << fbxMesh.normals * SizeofVec3, fbxMesh.tangents * SizeofVec3,
       fbxMesh.colors * SizeofVec3, fbxMesh.texCoords * SizeofVec2,
       fbxMesh.texCoords1 * SizeofVec2,
       Len(fbxMesh.clusterIndices) * (IF fbxMesh.clusters > UINT8_MAX THEN 2 ELSE 1),
       fbxMesh.clusterWeights >>

\* the offsets buildModelMesh computed, in layout order
RegionOffsets ==
    << build.normalsOffset, build.tangentsOffset, build.colorsOffset,
       build.texCoordsOffset, build.texCoords1Offset, build.clusterIndicesOffset,
       build.clusterWeightsOffset >>

RECURSIVE SumUpTo(_, _)
SumUpTo(sizes, n) == IF n = 0 THEN 0 ELSE SumUpTo(sizes, n - 1) + sizes[n]

\* C12: the seven attribute regions lie back to back in the order normals, tangents,
\* colors, UV0, UV1, cluster indices, cluster weights: each offset is the sum of the
\* sizes before it, the buffer is as long as the seven sizes together, no two
\* non-empty regions overlap and every region lies inside the buffer.
C12_BackToBackLayout ==
    SizesComputed =>
       /\ \A r \in 1 .. 7 : RegionOffsets[r] = SumUpTo(RegionSizes, r - 1)
       /\ build.totalAttributeSize = SumUpTo(RegionSizes, 7)
       /\ "attribBuffer" \in DOMAIN build => Len(build.attribBuffer) = SumUpTo(RegionSizes, 7)
       /\ \A r \in 1 .. 7 :
             /\ RegionOffsets[r] >= 0
             /\ RegionOffsets[r] + RegionSizes[r] <= build.totalAttributeSize
       /\ \A r1, r2 \in 1 .. 7 :
             (r1 < r2 /\ RegionSizes[r1] > 0 /\ RegionSizes[r2] > 0)
                => RegionOffsets[r1] + RegionSizes[r1] <= RegionOffsets[r2]

\* all seven regions non-empty
C12_Witness ==
    /\ SizesComputed
    /\ "attribBuffer" \in DOMAIN build
    /\ \A r \in 1 .. 7 : RegionSizes[r] > 0
    /\ fbxMesh.clusters > UINT8_MAX

\* C13: when buildModelMesh succeeds, NORMAL, TANGENT, COLOR, TEXCOORD,
\* SKIN_CLUSTER_INDEX and SKIN_CLUSTER_WEIGHT are each attached if and only if their
\* source array is non-empty, and TEXCOORD1 if and only if texCoords1 or texCoords is.
C13_AttachedIffPresent ==
    BuildSucceeded =>
       /\ Attached("NORMAL") <=> fbxMesh.normals # 0
       /\ Attached("TANGENT") <=> fbxMesh.tangents # 0
       /\ Attached("COLOR") <=> fbxMesh.colors # 0
       /\ Attached("TEXCOORD") <=> fbxMesh.texCoords # 0
       /\ Attached("SKIN_CLUSTER_INDEX") <=> fbxMesh.clusterIndices # <<>>
       /\ Attached("SKIN_CLUSTER_WEIGHT") <=> fbxMesh.clusterWeights # 0
       /\ Attached("TEXCOORD1") <=> (fbxMesh.texCoords1 # 0 \/ fbxMesh.texCoords # 0)
       /\ DOMAIN build.mesh.attributes \subseteq
             {"NORMAL", "TANGENT", "COLOR", "TEXCOORD", "TEXCOORD1",
              "SKIN_CLUSTER_INDEX", "SKIN_CLUSTER_WEIGHT"}

\* a mesh with colours and cluster indices only
C13_Witness ==
    /\ BuildSucceeded
    /\ DOMAIN build.mesh.attributes = {"COLOR", "SKIN_CLUSTER_INDEX"}
    /\ fbxMesh.clusterWeights = 0

RECURSIVE ConcatParts(_)
\* per part in order, its quadTrianglesIndices then its triangleIndices
ConcatParts(parts) ==
    IF parts = <<>> THEN <<>>
    ELSE Head(parts).quadTrianglesIndices \o Head(parts).triangleIndices
         \o ConcatParts(Tail(parts))

\* C14: when buildModelMesh succeeds, the index buffer is the concatenation over the
\* parts, in order, of quadTrianglesIndices then triangleIndices; part range k starts
\* at the sum of the index counts of parts 0..k-1 and counts its own indices, so the
\* ranges are contiguous, one per part (empty parts too), and sum to the total.
C14_IndexBufferAndRanges ==
    BuildSucceeded =>
       /\ build.mesh.indexBuffer = ConcatParts(fbxMesh.parts)
       /\ Len(build.mesh.partBuffer) = Len(fbxMesh.parts)
       /\ \A k \in 1 .. Len(fbxMesh.parts) :
             /\ build.mesh.partBuffer[k].startIndex =
                   TotalIndices(SubSeq(fbxMesh.parts, 1, k - 1))
             /\ build.mesh.partBuffer[k].numIndices =
                   Len(fbxMesh.parts[k].quadTrianglesIndices)
                   + Len(fbxMesh.parts[k].triangleIndices)
             /\ build.mesh.partBuffer[k].topology = "TRIANGLES"
             /\ k < Len(fbxMesh.parts) =>
                   build.mesh.partBuffer[k].startIndex + build.mesh.partBuffer[k].numIndices
                      = build.mesh.partBuffer[k + 1].startIndex
       /\ build.indexNum = TotalIndices(fbxMesh.parts)

\* three parts, the middle one empty, the first with quad triangles and triangles
C14_Witness ==
    /\ BuildSucceeded
    /\ Len(fbxMesh.parts) = 3
    /\ build.mesh.indexBuffer = <<0, 1, 3, 1, 2, 3, 4, 5, 6, 7, 8, 9>>
    /\ build.mesh.partBuffer[2].numIndices = 0
    /\ build.mesh.partBuffer[2].startIndex = 9
    /\ build.mesh.partBuffer[3].startIndex = 9

-----------------------------------------------------------------------------
(* Claims about out-of-range lookups, part keys and the compressed path *)

\* position i of an optional index array, then of the value array, is not there
OutOfRange(values, valueIndices, i) ==
    IF valueIndices = <<>>
    THEN i >= Len(values)
    ELSE \/ i >= Len(valueIndices)
         \/ At(valueIndices, i) < 0
         \/ At(valueIndices, i) >= Len(values)

\* the element position i selects, for a position that is in range
InRangeValue(values, valueIndices, i) ==
    IF valueIndices = <<>> THEN At(values, i) ELSE At(values, At(valueIndices, i))

\* the value a lookup must give: zero out of range, the selected element otherwise
Expected(values, valueIndices, i, zero) ==
    IF OutOfRange(values, valueIndices, i) THEN zero
    ELSE InRangeValue(values, valueIndices, i)

RECURSIVE AppendedCount(_)
\* how many indices the parts' quadIndices and triangleIndices lists hold
AppendedCount(parts) ==
    IF parts = <<>> THEN 0
    ELSE Len(Head(parts).quadIndices) + Len(Head(parts).triangleIndices)
         + AppendedCount(Tail(parts))

\* C15: for every corner appendIndex resolves, a source vertex index beyond the
\* vertices array gives position zero; a normal, colour or UV lookup whose position
\* is beyond the index array, or whose index entry is negative or beyond the value
\* array, gives zero; every other lookup gives the selected element, whatever the
\* earlier corners were; and every call appends exactly one index.
C15_OutOfRangeGivesZero ==
    /\ \A n \in 1 .. Len(calls) :
          LET c == calls[n]
              v == c.vertexIndex
              ni == IF data.normalsByVertex THEN v ELSE c.index
              ci == IF data.colorsByVertex THEN v ELSE c.index
          IN  /\ c.index >= 0 /\ c.index < Len(data.polygonIndices)
              /\ v >= 0
              /\ c.position = IF v >= Len(data.vertices) THEN Zero3 ELSE At(data.vertices, v)
              /\ c.normal = Expected(data.normals, data.normalIndices, ni, Zero3)
              /\ c.color = IF Len(data.colors) > 1
                           THEN Expected(data.colors, data.colorIndices, ci, Zero4)
                           ELSE Zero4
              /\ c.texCoord = Expected(data.texCoords, data.texCoordIndices, c.index, Zero2)
              /\ c.texCoord1 =
                    IF Len(data.attributes) > 1
                    THEN Expected(data.attributes[2].texCoords,
                                  data.attributes[2].texCoordIndices, c.index, Zero2)
                    ELSE Zero2
              /\ c.isNew => extracted.mesh.vertices[c.out + 1] = c.position
    /\ PolygonPath =>
          Len(calls) = AppendedCount(extracted.mesh.parts)

\* a corner with a zero position and a zero normal from out-of-range lookups is
\* followed by a corner that resolves a stored position, normal and UV
C15_Witness ==
    /\ pc = "done"
    /\ \E n1, n2 \in 1 .. Len(calls) :
          /\ n1 < n2
          /\ calls[n1].vertexIndex >= Len(data.vertices)
          /\ calls[n1].position = Zero3
          /\ data.normalIndices # <<>>
          /\ At(data.normalIndices, calls[n1].index) < 0
          /\ calls[n1].normal = Zero3
          /\ calls[n2].position = P1
          /\ calls[n2].normal # Zero3
          /\ calls[n2].texCoord # Zero2

\* the number of polygons whose loop iteration has started
PolygonsBegun == IF poly.kind = "none" THEN 0 ELSE poly.polygonIndex + 1

\* the key the claim assigns to polygon number k
KeyOfPolygon(k) ==
    << IF k < Len(materials) THEN materials[k + 1] ELSE 0,
       IF k < Len(textures) THEN textures[k + 1] ELSE 0 >>

RECURSIVE FirstSeenKeys(_)
\* the distinct keys of polygons 0 .. n-1, ordered by first occurrence
FirstSeenKeys(n) ==
    IF n = 0 THEN <<>>
    ELSE LET earlier == FirstSeenKeys(n - 1)
             key == KeyOfPolygon(n - 1)
         IN  IF \E i \in 1 .. Len(earlier) : earlier[i] = key
             THEN earlier
             ELSE Append(earlier, key)

\* C16: on the non-compressed path polygon k has the key (materials[k] or 0,
\* textures[k] or 0); the parts are the distinct keys of the polygons begun so far in
\* first-seen order, partMaterialTextures is as long as parts and names each part's
\* key, no two parts share a key, and every index appended for a polygon goes to the
\* part of that polygon's key.
C16_PartsByFirstSeenKey ==
    (PolygonPath /\ pc \in {"polygons", "quad", "fan", "done"}) =>
       /\ extracted.partMaterialTextures = FirstSeenKeys(PolygonsBegun)
       /\ Len(extracted.mesh.parts) = Len(extracted.partMaterialTextures)
       /\ \A i, j \in 1 .. Len(extracted.partMaterialTextures) :
             extracted.partMaterialTextures[i] = extracted.partMaterialTextures[j] => i = j
       /\ poly.kind # "none" =>
             /\ poly.part \in 1 .. Len(extracted.mesh.parts)
             /\ extracted.partMaterialTextures[poly.part] = KeyOfPolygon(poly.polygonIndex)
             /\ \A n \in poly.callsBefore + 1 .. Len(calls) : calls[n].part = poly.part
             /\ \A n \in 1 .. poly.callsBefore : calls[n].part \in 1 .. Len(extracted.mesh.parts)

\* three polygons with keys (0,0), (1,0), (0,0): two parts, the third polygon's
\* indices in the first part
C16_Witness ==
    /\ pc = "done" /\ PolygonPath
    /\ materials = <<0, 1, 0>>
    /\ poly.kind # "none"
    /\ poly.polygonIndex = 2
    /\ extracted.partMaterialTextures = << <<0, 0>>, <<1, 0>> >>
    /\ poly.part = 1
    /\ Len(calls) > poly.callsBefore
    /\ Len(extracted.mesh.parts[2].triangleIndices) > 0

\* the key of decoded face number i (from 1): material id of its first corner, texture 0
KeyOfFace(i) ==
    << IF draco.hasMatTex THEN DracoMaterialID(draco.faces[i][1]) ELSE 0, 0 >>

RECURSIVE FirstSeenFaceKeys(_)
\* the distinct keys of faces 1 .. n, ordered by first occurrence
FirstSeenFaceKeys(n) ==
    IF n = 0 THEN <<>>
    ELSE LET earlier == FirstSeenFaceKeys(n - 1)
         IN  IF \E i \in 1 .. Len(earlier) : earlier[i] = KeyOfFace(n)
             THEN earlier
             ELSE Append(earlier, KeyOfFace(n))

RECURSIVE FacesOfKey(_, _)
\* the point indices of the faces 1 .. n that have the key, in face order
FacesOfKey(key, n) ==
    IF n = 0 THEN <<>>
    ELSE FacesOfKey(key, n - 1) \o (IF KeyOfFace(n) = key THEN draco.faces[n] ELSE <<>>)

\* the faces of the compressed path: three point indices each, unchanged and in face
\* order, in the part of the face's key; parts in first-seen key order; no quad
\* lists; no deduplication lookup
DracoFacesToParts ==
    (pc = "done" /\ draco.present) =>
       /\ extracted.partMaterialTextures = FirstSeenFaceKeys(Len(draco.faces))
       /\ Len(extracted.mesh.parts) = Len(extracted.partMaterialTextures)
       /\ \A i \in 1 .. Len(extracted.mesh.parts) :
             /\ extracted.mesh.parts[i].triangleIndices =
                   FacesOfKey(extracted.partMaterialTextures[i], Len(draco.faces))
             /\ extracted.mesh.parts[i].quadIndices = <<>>
             /\ extracted.mesh.parts[i].quadTrianglesIndices = <<>>
       /\ calls = <<>>
       /\ DOMAIN indices = {}

\* C17: on the compressed path every decoded face appends its three point indices,
\* unchanged and in face order, to the triangleIndices of the part keyed by (material
\* id of the first corner or 0, texture 0); parts are in first-seen key order, quad
\* lists stay empty, no deduplication lookup is made, and one output vertex is
\* appended per decoded point.
C17_DracoFacesAndPoints ==
    /\ DracoFacesToParts
    /\ (pc = "done" /\ draco.present) =>
          Len(extracted.mesh.vertices) = draco.numPoints

-----------------------------------------------------------------------------
(* Claims about the children of the node *)

RECURSIVE DracoChildrenVisited(_)
\* how many DracoMesh children are among the first n children
DracoChildrenVisited(n) ==
    IF n = 0 THEN 0
    ELSE DracoChildrenVisited(n - 1) + (IF node.children[n].name = "DracoMesh" THEN 1 ELSE 0)

RECURSIVE TriangleCount(_)
TriangleCount(parts) ==
    IF parts = <<>> THEN 0
    ELSE Len(Head(parts).triangleIndices) + TriangleCount(Tail(parts))

\* C18: a node with a DracoMesh child never has an entry of its PolygonVertexIndex
\* stream resolved, wherever the DracoMesh child stands among the children: no
\* appendIndex call is made, the polygon loop is never entered, and the returned
\* vertices and indices are those of the decoded points and faces; a node without a
\* DracoMesh child gets its vertices, indices and parts from the polygon loop only.
C18_PathsExclusive ==
    /\ HasDracoChild(node.children) =>
          /\ calls = <<>>
          /\ DOMAIN indices = {}
          /\ poly = NoPoly
          /\ pc \notin {"polygons", "quad", "fan"}
          /\ pc = "done" =>
                /\ isDracoMesh
                /\ Len(extracted.mesh.vertices) =
                      draco.numPoints * DracoChildrenVisited(Len(node.children))
                /\ TriangleCount(extracted.mesh.parts) =
                      3 * Len(draco.faces) * DracoChildrenVisited(Len(node.children))
                /\ \A i \in 1 .. Len(extracted.mesh.parts) :
                      extracted.mesh.parts[i].quadIndices = <<>>
    /\ ~HasDracoChild(node.children) =>
          /\ ~isDracoMesh
          /\ pc \notin {"dracoPoints", "dracoFaces"}
          /\ Len(extracted.mesh.vertices) = Cardinality(CreatingCalls)
          /\ AppendedCount(extracted.mesh.parts) = Len(calls)
          /\ pc \in {"children", "afterChildren"} => extracted.mesh = EmptyMesh

\* a DracoMesh child followed by a PolygonVertexIndex child: the stream is stored
\* and never resolved
C18_Witness ==
    /\ pc = "done"
    /\ Len(node.children) >= 2
    /\ node.children[1].name = "DracoMesh"
    /\ node.children[2].name = "PolygonVertexIndex"
    /\ data.polygonIndices = <<0, 1, 0, -2>>
    /\ calls = <<>>
    /\ Len(extracted.mesh.vertices) = 2
    /\ extracted.mesh.parts[1].triangleIndices = <<0, 1, 0>>

\* the LayerElementUV children among the first n children
RECURSIVE UVChildrenVisited(_)
UVChildrenVisited(n) ==
    IF n = 0 THEN <<>>
    ELSE UVChildrenVisited(n - 1)
         \o (IF node.children[n].name = "LayerElementUV" THEN <<node.children[n]>> ELSE <<>>)

\* the channels of a list that are the first with their name
RECURSIVE FirstOfEachName(_)
FirstOfEachName(uvs) ==
    IF uvs = <<>> THEN <<>>
    ELSE LET earlier == FirstOfEachName(SubSeq(uvs, 1, Len(uvs) - 1))
             last == uvs[Len(uvs)]
         IN  IF \E i \in 1 .. Len(uvs) - 1 : uvs[i].uvName = last.uvName
             THEN earlier
             ELSE Append(earlier, last)

\* the UV array of the last channel 0 of a list, empty when it has none
RECURSIVE PrimaryUVOf(_)
PrimaryUVOf(uvs) ==
    IF uvs = <<>> THEN <<>>
    ELSE IF uvs[Len(uvs)].channel = 0 THEN uvs[Len(uvs)].uv
         ELSE PrimaryUVOf(SubSeq(uvs, 1, Len(uvs) - 1))

\* C19: of the LayerElementUV children visited so far, exactly the first with each
\* name is in the attribute list, the name-to-slot map names its slot, and the
\* primary UV arrays are those of the last registered channel 0; a channel whose
\* name was registered earlier changes none of the three, whatever its channel
\* number is.
C19_DuplicateNameSkipped ==
    LET registered == FirstOfEachName(UVChildrenVisited(node.next))
    IN  /\ Len(data.attributes) = Len(registered)
        /\ \A i \in 1 .. Len(registered) :
              /\ i <= Len(data.attributes)
              /\ data.attributes[i] = AttributeOf(registered[i])
              /\ registered[i].uvName \in DOMAIN extracted.texcoordSetMap
              /\ extracted.texcoordSetMap[registered[i].uvName] = i - 1
        /\ data.texCoords = PrimaryUVOf(registered)

\* a channel 0 whose name an earlier visited channel has
LaterChannelZeroDuplicate ==
    LET uvs == UVChildrenVisited(node.next)
    IN  \E i, j \in 1 .. Len(uvs) :
           i < j /\ uvs[j].channel = 0 /\ uvs[i].uvName = uvs[j].uvName

\* the skip of a duplicate name does hold for every channel that is not channel 0
DuplicateNameSkippedOffChannelZero ==
    ~LaterChannelZeroDuplicate => C19_DuplicateNameSkipped

-----------------------------------------------------------------------------
(* Claims about concurrent extractions *)

\* the step-by-step polygon loop and the loop run as one function agree
PolygonLoopAgrees ==
    (pc = "done" /\ PolygonPath) =>
       [extracted EXCEPT !.texcoordSetMap = <<>>] =
          ExtractedOf([data |-> data, materials |-> materials, textures |-> textures])

AllReturned == pc = "threads" /\ \A t \in Threads : threads[t].pc = "returned"

SharedCounter == threads[1].counter = threads[2].counter

\* what call t returns when the calls run one after the other in the given order
SequentialResult(t, order) ==
    [returned |-> TRUE,
     meshIndex |-> IF SharedCounter /\ order[2] = t
                   THEN threads[t].start + 1
                   ELSE threads[t].start,
     extracted |-> ExtractedOf(threads[t].object)]

-----------------------------------------------------------------------------
(* Claims about newIndices, output indices and the spans of polygons *)

KeysResolved(n) == {CallKey(calls[m]) : m \in 1 .. n}

\* C22: on the non-compressed path the k-th distinct identity key resolved (k from 0)
\* gets output index k, there are as many output vertices as distinct keys among the
\* resolved corners, and the position stored at an index is the source position of
\* its key's source vertex index.
C22_DenseFirstSeenIndices ==
    PolygonPath =>
       /\ \A n \in 1 .. Len(calls) :
             /\ calls[n].isNew <=> CallKey(calls[n]) \notin KeysResolved(n - 1)
             /\ calls[n].isNew =>
                   /\ calls[n].out = Cardinality(KeysResolved(n - 1))
                   /\ extracted.mesh.vertices[calls[n].out + 1] =
                         IF calls[n].vertexIndex < Len(data.vertices)
                         THEN data.vertices[calls[n].vertexIndex + 1]
                         ELSE Zero3
       /\ Len(extracted.mesh.vertices) = Cardinality(KeysResolved(Len(calls)))

\* a quad and a pentagon over five source vertices first met in increasing order:
\* the output vertices are the input vertices, in order
C22_Witness ==
    /\ pc = "done" /\ PolygonPath
    /\ Len(data.vertices) = 5
    /\ extracted.mesh.vertices = data.vertices
    /\ Len(calls) = 13
    /\ extracted.mesh.parts[1].quadTrianglesIndices = <<0, 1, 3, 1, 2, 3>>

\* C23: after extractMesh on any polygon stream, every part's triangleIndices and
\* quadTrianglesIndices hold whole triangles: their lengths are multiples of 3.
C23_WholeTriangles ==
    (pc = "done" /\ PolygonPath) =>
       \A p \in 1 .. Len(extracted.mesh.parts) :
          /\ Len(extracted.mesh.parts[p].triangleIndices) % 3 = 0
          /\ Len(extracted.mesh.parts[p].quadTrianglesIndices) % 3 = 0

RECURSIVE ShortestSpan(_, _)
\* the fewest corners of a polygon of the stream from position begin on
ShortestSpan(stream, begin) ==
    IF begin >= Len(stream) THEN Len(stream) + 1
    ELSE LET end == ScanEndIndex(stream, begin)
             rest == ShortestSpan(stream, end)
         IN  IF end - begin < rest THEN end - begin ELSE rest

\* every polygon of the stream has three corners or more and the last one is terminated
WellFormedStream ==
    /\ ShortestSpan(data.polygonIndices, 0) >= 3
    /\ data.polygonIndices # <<>> => data.polygonIndices[Len(data.polygonIndices)] < 0

\* whole triangles do come out of every well-formed stream
WholeTrianglesOfWellFormedStream == WellFormedStream => C23_WholeTriangles

\* C24: while a polygon is processed only stream entries inside its span, from its
\* start position up to and including its terminator, are resolved.
C24_OnlyOwnSpanResolved ==
    (PolygonPath /\ poly.kind # "none") =>
       \A n \in poly.callsBefore + 1 .. Len(calls) :
          poly.begin <= calls[n].index /\ calls[n].index < poly.end

\* no corner outside the span is resolved for a polygon of three corners or more
OwnSpanResolvedFromThreeCorners ==
    (PolygonPath /\ poly.kind # "none" /\ poly.end - poly.begin >= 3) =>
       C24_OnlyOwnSpanResolved

\* the three index lists of a part
IndexLists == {"quadIndices", "quadTrianglesIndices", "triangleIndices"}

IsHit(index) == HashFind(indices, CornerVertex(data, index)) # {}

\* C27: appendIndex on a corner whose identity key is already in the dedup index
\* leaves the output vertices, texCoords, texCoords1 and colors, the dedup index,
\* newIndices and the normals of all other output vertices unchanged; it adds the
\* resolved normal to the stored normal of the hit vertex and appends the hit
\* vertex's index to the caller's list, and to no other list.
C27_HitFrame ==
    PolygonPath =>
       \A index \in 0 .. Len(data.polygonIndices) - 1 :
          \A p \in 1 .. Len(extracted.mesh.parts) :
             \A list \in {"quadIndices", "triangleIndices"} :
                IsHit(index) =>
                   LET key == CHOOSE k \in HashFind(indices, CornerVertex(data, index)) : TRUE
                       it == indices[key]
                       vertexIndex == DecodeVertexIndex(At(data.polygonIndices, index))
                       r == appendIndex(data, [indices |-> indices, extracted |-> extracted,
                                               calls |-> calls], p, list, index)
                       before == extracted.mesh
                       after == r.extracted.mesh
                   IN  /\ r.indices = indices
                       /\ r.extracted.newIndices = extracted.newIndices
                       /\ r.extracted.partMaterialTextures = extracted.partMaterialTextures
                       /\ after.vertices = before.vertices
                       /\ after.texCoords = before.texCoords
                       /\ after.texCoords1 = before.texCoords1
                       /\ after.colors = before.colors
                       /\ Len(after.normals) = Len(before.normals)
                       /\ \A k \in 1 .. Len(before.normals) :
                             after.normals[k] =
                                IF k = it + 1
                                THEN Add3(before.normals[k],
                                          ResolveNormal(data, vertexIndex, index))
                                ELSE before.normals[k]
                       /\ Len(after.parts) = Len(before.parts)
                       /\ \A q \in 1 .. Len(before.parts) : \A l \in IndexLists :
                             after.parts[q][l] =
                                IF q = p /\ l = list
                                THEN Append(before.parts[q][l], it)
                                ELSE before.parts[q][l]

\* the last corner resolved was a hit with a non-zero normal on a mesh of two
\* output vertices or more
C27_Witness ==
    /\ pc = "done" /\ PolygonPath
    /\ Len(extracted.mesh.vertices) >= 2
    /\ calls # <<>>
    /\ ~calls[Len(calls)].isNew
    /\ calls[Len(calls)].normal # Zero3
    /\ IsHit(calls[Len(calls)].index)
    /\ extracted.mesh.normals[calls[Len(calls)].out + 1] # calls[Len(calls)].normal

\* an iteration of the polygon loop ends with a larger start position, and an
\* iteration of the fan loop that goes on does so with a larger corner position
\* that is still inside the stream
LoopProgress ==
    /\ (pc \in {"quad", "fan"} /\ pc' = "polygons") =>
          /\ loop'.beginIndex > poly.begin
          /\ loop'.beginIndex <= Len(data.polygonIndices)
          /\ loop'.polygonIndex = loop.polygonIndex + 1
    /\ (pc = "fan" /\ pc' = "fan") =>
          /\ loop'.nextIndex > loop.nextIndex
          /\ loop'.nextIndex < Len(data.polygonIndices)
          /\ loop'.beginIndex = loop.beginIndex
    /\ (pc = "polygons" /\ pc' \in {"quad", "fan"}) =>
          loop'.beginIndex = loop.beginIndex

\* C26: the polygon loop terminates for every finite stream, the empty one and one
\* whose last polygon has no terminator included: extractMesh returns, the polygon
\* start position strictly increases on every iteration, and the corner position of
\* the fan loop strictly increases until a terminator or the end of the stream.
C26_PolygonLoopTerminates ==
    /\ <>(pc = "done")
    /\ [][LoopProgress]_vars

\* extractMesh has returned from a stream of two polygons whose last one has no
\* terminator, after a fan loop of two iterations or more
C26_Witness ==
    /\ pc = "done" /\ PolygonPath
    /\ data.polygonIndices # <<>>
    /\ data.polygonIndices[Len(data.polygonIndices)] >= 0
    /\ poly.kind = "fan"
    /\ poly.polygonIndex >= 1
    /\ Len(calls) - poly.callsBefore >= 5
    /\ loop.beginIndex = Len(data.polygonIndices)

-----------------------------------------------------------------------------
(* Claims about the colour layer *)

RECURSIVE LastColorChild(_)
\* the last LayerElementColor child among the first n children (n >= 1 of them exist)
LastColorChild(n) ==
    IF node.children[n].name = "LayerElementColor" THEN node.children[n]
    ELSE LastColorChild(n - 1)

ColorChildVisited ==
    \E i \in 1 .. node.next : node.children[i].name = "LayerElementColor"

\* C28: colours are addressed by vertex exactly when the colour layer's
\* MappingInformationType is ByVertice, or its ReferenceInformationType is
\* IndexToDirect and it has no ColorsIndex array; a normal index array on the same
\* mesh does not change that.
C28_ColorModeFromOwnFields ==
    ColorChildVisited =>
       LET layer == LastColorChild(node.next)
       IN  data.colorsByVertex <=>
              (layer.byVertice \/ (layer.indexToDirect /\ ~layer.hasIndex))

\* the colour mode follows the claim only while the mesh has no normal index array,
\* and then only for a layer without ColorsIndex
ColorModeWithoutNormalIndex ==
    (ColorChildVisited /\ data.normalIndices = <<>>
       /\ ~LastColorChild(node.next).hasIndex) => C28_ColorModeFromOwnFields


-----------------------------------------------------------------------------
\* ItemHighlightScriptingInterface.cpp

\* render::Item::INVALID_ITEM_ID
INVALID_ITEM_ID == 0

\* the longest highlighted-items list explored
MaxItems == 3

\* render::ItemID values handed to the generic overloads
ItemIDs == 0..2

\* the entity tree: findEntityByEntityItemID(entityID) is an entity or NULL; an
\* entity has a renderable interface or not, and that has a meta render item ID
EntityIDs == {"e1", "e2", "invalidMeta", "noRenderable", "absent"}

findEntityByEntityItemID(entityID) ==
    CASE entityID = "e1" -> [null |-> FALSE, renderable |-> TRUE, metaRenderItemID |-> 1]
      [] entityID = "e2" -> [null |-> FALSE, renderable |-> TRUE, metaRenderItemID |-> 2]
      [] entityID = "invalidMeta" ->
             [null |-> FALSE, renderable |-> TRUE, metaRenderItemID |-> INVALID_ITEM_ID]
      [] entityID = "noRenderable" ->
             [null |-> FALSE, renderable |-> FALSE, metaRenderItemID |-> INVALID_ITEM_ID]
      [] OTHER -> [null |-> TRUE, renderable |-> FALSE, metaRenderItemID |-> INVALID_ITEM_ID]

\* the overlays: getOverlay(overlayID) is an overlay with a render item ID, or NULL
OverlayIDs == {"o1", "oInvalid", "oAbsent"}

getOverlay(overlayID) ==
    CASE overlayID = "o1" -> [null |-> FALSE, renderItemID |-> 2]
      [] overlayID = "oInvalid" -> [null |-> FALSE, renderItemID |-> INVALID_ITEM_ID]
      [] OTHER -> [null |-> TRUE, renderItemID |-> INVALID_ITEM_ID]

\* the lambda handed to withReadLock in getItemIDFromEntityID: the value of its
\* return statements (lines 25-32)
ReadLockLambda(entityID) ==
    LET entityItem == findEntityByEntityItemID(entityID)
    IN  IF ~entityItem.null /\ entityItem.renderable
        THEN entityItem.metaRenderItemID
        ELSE INVALID_ITEM_ID

\* getItemIDFromEntityID: the call of withReadLock is an expression statement, the
\* lambda's value goes nowhere, and the function's one return statement (line 34)
\* returns INVALID_ITEM_ID
getItemIDFromEntityID(entityID) ==
    LET dropped == ReadLockLambda(entityID)
    IN  INVALID_ITEM_ID

\* getItemIDFromOverlayID
getItemIDFromOverlayID(overlayID) ==
    LET overlay == getOverlay(overlayID)
    IN  IF ~overlay.null /\ overlay.renderItemID # INVALID_ITEM_ID
        THEN overlay.renderItemID
        ELSE INVALID_ITEM_ID

\* updateRendererHighlightList: with a scene, the transaction that resets the
\* "Highlight" selection to the list is enqueued; without one, a warning only
updateRendererHighlightList(h, list) ==
    IF h.scene THEN [h EXCEPT !.list = list, !.selection = list,
                              !.transactions = (@ + 1) % 2]
               ELSE [h EXCEPT !.list = list]

\* addToHighlightedItemsList(render::ItemID): the state after, the result is true
addItem(h, idToAdd) == updateRendererHighlightList(h, Append(h.list, idToAdd))

\* std::find: the first position of idToRemove, or 0 for end()
Find(list, idToRemove) ==
    IF \E i \in 1..Len(list) : list[i] = idToRemove
    THEN CHOOSE i \in 1..Len(list) :
            /\ list[i] = idToRemove
            /\ \A j \in 1..(i - 1) : list[j] # idToRemove
    ELSE 0

\* erase(itr)
Erase(list, i) == [j \in 1..(Len(list) - 1) |-> IF j < i THEN list[j] ELSE list[j + 1]]

\* removeFromHighlightedItemsList(render::ItemID): the state after and the result
removeItem(h, idToRemove) ==
    LET itr == Find(h.list, idToRemove)
    IN  IF itr = 0
        THEN [state |-> h, result |-> FALSE]
        ELSE [state |-> updateRendererHighlightList(h, Erase(h.list, itr)),
              result |-> TRUE]

\* the record of the call just made
Called(h, op, arg, itemID, result, before) ==
    [h EXCEPT !.last = [op |-> op, arg |-> arg, itemID |-> itemID, result |-> result,
                        before |-> before]]

NoCall == [op |-> "none", arg |-> "", itemID |-> INVALID_ITEM_ID, result |-> FALSE,
           before |-> <<>>]

\* the interface after construction; the view state has a main scene or none
InitHighlight ==
    /\ pc = "highlight"
    /\ \E scene \in BOOLEAN :
          highlighting = [list |-> <<>>, scene |-> scene, selection |-> <<>>,
                          transactions |-> 0, last |-> NoCall]
    /\ audio = NoAudio
    /\ threads = NoThreads
    /\ meshIndex = NoCounters
    /\ data = MeshDataOf(GeomPlain, LayerNone(FALSE), <<>>)
    /\ materials = <<>>
    /\ textures = <<>>
    /\ draco = NoDraco
    /\ isDracoMesh = FALSE
    /\ indices = <<>>
    /\ extracted = EmptyExtracted
    /\ materialTextureParts = <<>>
    /\ loop = EmptyLoop
    /\ calls = <<>>
    /\ poly = NoPoly
    /\ node = NodeOf(<<>>)
    /\ fbxMesh = NoFbxMesh
    /\ build = NoBuild
    /\ meshSet = FALSE

HighlightUnchanged == UNCHANGED <<pc, audio, extractVars, buildVars, threadVars>>

\* addToHighlightedItemsList(const EntityItemID&)
AddEntityToHighlightedItemsList(entityID) ==
    /\ pc = "highlight"
    /\ Len(highlighting.list) < MaxItems
    /\ LET itemID == getItemIDFromEntityID(entityID)
       IN  highlighting' =
              IF itemID # INVALID_ITEM_ID
              THEN Called(addItem(highlighting, itemID), "addEntity", entityID, itemID,
                          TRUE, highlighting.list)
              ELSE Called(highlighting, "addEntity", entityID, itemID, FALSE,
                          highlighting.list)
    /\ HighlightUnchanged

\* removeFromHighlightedItemsList(const EntityItemID&)
RemoveEntityFromHighlightedItemsList(entityID) ==
    /\ pc = "highlight"
    /\ LET itemID == getItemIDFromEntityID(entityID)
           removed == removeItem(highlighting, itemID)
       IN  highlighting' =
              IF itemID # INVALID_ITEM_ID
              THEN Called(removed.state, "removeEntity", entityID, itemID,
                          removed.result, highlighting.list)
              ELSE Called(highlighting, "removeEntity", entityID, itemID, FALSE,
                          highlighting.list)
    /\ HighlightUnchanged

\* addToHighlightedItemsList(const OverlayID&)
AddOverlayToHighlightedItemsList(overlayID) ==
    /\ pc = "highlight"
    /\ Len(highlighting.list) < MaxItems
    /\ LET itemID == getItemIDFromOverlayID(overlayID)
       IN  highlighting' =
              IF itemID # INVALID_ITEM_ID
              THEN Called(addItem(highlighting, itemID), "addOverlay", overlayID, itemID,
                          TRUE, highlighting.list)
              ELSE Called(highlighting, "addOverlay", overlayID, itemID, FALSE,
                          highlighting.list)
    /\ HighlightUnchanged

\* removeFromHighlightedItemsList(const OverlayID&)
RemoveOverlayFromHighlightedItemsList(overlayID) ==
    /\ pc = "highlight"
    /\ LET itemID == getItemIDFromOverlayID(overlayID)
           removed == removeItem(highlighting, itemID)
       IN  highlighting' =
              IF itemID # INVALID_ITEM_ID
              THEN Called(removed.state, "removeOverlay", overlayID, itemID,
                          removed.result, highlighting.list)
              ELSE Called(highlighting, "removeOverlay", overlayID, itemID, FALSE,
                          highlighting.list)
    /\ HighlightUnchanged

\* addToHighlightedItemsList(render::ItemID)
AddToHighlightedItemsList(idToAdd) ==
    /\ pc = "highlight"
    /\ Len(highlighting.list) < MaxItems
    /\ highlighting' = Called(addItem(highlighting, idToAdd), "addItem", "", idToAdd,
                              TRUE, highlighting.list)
    /\ HighlightUnchanged

\* removeFromHighlightedItemsList(render::ItemID)
RemoveFromHighlightedItemsList(idToRemove) ==
    /\ pc = "highlight"
    /\ LET removed == removeItem(highlighting, idToRemove)
       IN  highlighting' = Called(removed.state, "removeItem", "", idToRemove,
                                 removed.result, highlighting.list)
    /\ HighlightUnchanged

NextHighlight ==
    \/ \E entityID \in EntityIDs : AddEntityToHighlightedItemsList(entityID)
    \/ \E entityID \in EntityIDs : RemoveEntityFromHighlightedItemsList(entityID)
    \/ \E overlayID \in OverlayIDs : AddOverlayToHighlightedItemsList(overlayID)
    \/ \E overlayID \in OverlayIDs : RemoveOverlayFromHighlightedItemsList(overlayID)
    \/ \E idToAdd \in ItemIDs : AddToHighlightedItemsList(idToAdd)
    \/ \E idToRemove \in ItemIDs : RemoveFromHighlightedItemsList(idToRemove)

SpecHighlight == InitHighlight /\ [][NextHighlight]_vars

\* the entity is in the tree and has a renderable interface with a valid meta
\* render item ID
HasValidMetaRenderItemID(entityID) ==
    LET entityItem == findEntityByEntityItemID(entityID)
    IN  /\ ~entityItem.null
        /\ entityItem.renderable
        /\ entityItem.metaRenderItemID # INVALID_ITEM_ID

\* C29: addToHighlightedItemsList(entityID) for an entity that is in the tree and
\* has a renderable interface with a valid meta render item ID appends that ID to
\* the list, resets the scene's selection to the list and returns true; for any
\* other entity it returns false and leaves the list as it was.
C29_EntityHighlighted ==
    LET last == highlighting.last
    IN  last.op = "addEntity" =>
           IF HasValidMetaRenderItemID(last.arg)
           THEN /\ last.result
                /\ highlighting.list =
                      Append(last.before, findEntityByEntityItemID(last.arg).metaRenderItemID)
                /\ highlighting.scene => highlighting.selection = highlighting.list
           ELSE /\ ~last.result
                /\ highlighting.list = last.before

\* what the code does for every entity: the lookup yields INVALID_ITEM_ID, the
\* call returns false and the list keeps its contents
EntityNeverHighlighted ==
    LET last == highlighting.last
    IN  last.op \in {"addEntity", "removeEntity"} =>
           /\ last.itemID = INVALID_ITEM_ID
           /\ ~last.result
           /\ highlighting.list = last.before

\* the overlay overload does what C29 says of the entity overload
OverlayHighlighted ==
    LET last == highlighting.last
    IN  last.op = "addOverlay" =>
           IF getItemIDFromOverlayID(last.arg) # INVALID_ITEM_ID
           THEN /\ last.result
                /\ highlighting.list =
                      Append(last.before, getOverlay(last.arg).renderItemID)
                /\ highlighting.scene => highlighting.selection = highlighting.list
           ELSE /\ ~last.result
                /\ highlighting.list = last.before


-----------------------------------------------------------------------------
\* Audio.cpp: the ring buffer's next-output pointer

\* RING_BUFFER_LENGTH_SAMPLES and PACKET_LENGTH_SAMPLES come from a header; the
\* model runs a ring of two packets of four samples
RING_BUFFER_LENGTH_SAMPLES == 8

PACKET_LENGTH_SAMPLES == 4

\* sizeof(int16_t)
SizeofInt16 == 2

\* inputByteArray.size(): what _inputDevice->readAll() hands over in one callback
InputByteCounts == {0, 2, 4, 8}

\* _ringBuffer.diffLastWriteNextOutput(): samples written and not yet played
SampleDiffs == 0..RING_BUFFER_LENGTH_SAMPLES

\* _jitterBufferSamples: the initial value, and what setJitterBufferSamples is
\* handed, clamped to 0..MAX_JITTER_BUFFER_SAMPLES
MAX_JITTER_BUFFER_SAMPLES == RING_BUFFER_LENGTH_SAMPLES \div 2

JitterBufferSamples == 0..MAX_JITTER_BUFFER_SAMPLES

\* the pointer is followed up to this offset from the buffer start
MaxOffset == RING_BUFFER_LENGTH_SAMPLES + PACKET_LENGTH_SAMPLES + PACKET_LENGTH_SAMPLES

\* ceilf((float) a / b) for a >= 0, b > 0
Ceilf(a, b) == (a + b - 1) \div b

\* lines 370-372: if (getNextOutput() >= getBuffer() + RING_BUFFER_LENGTH_SAMPLES)
\* setNextOutput(getBuffer()); offsets are counted from getBuffer()
WrapAtOrPastEnd(nextOutput) ==
    IF nextOutput >= RING_BUFFER_LENGTH_SAMPLES THEN 0 ELSE nextOutput

\* lines 420-422: if (getNextOutput() == getBuffer() + RING_BUFFER_LENGTH_SAMPLES)
\* setNextOutput(getBuffer())
WrapAtEnd(nextOutput) ==
    IF nextOutput = RING_BUFFER_LENGTH_SAMPLES THEN 0 ELSE nextOutput

\* lines 342-343: starved and not enough audio has arrived to start playback
KeepWaiting(a, diff) ==
    /\ a.isStarved
    /\ diff < (a.outputBufferSize \div SizeofInt16)
                + a.jitterBufferSamples * (IF a.isStereo THEN 2 ELSE 1)

\* lines 413-414: this packet would give more than the required amount for play out
DiscardOldest(a, diff) ==
    diff + PACKET_LENGTH_SAMPLES >
       PACKET_LENGTH_SAMPLES
         + Ceilf(a.jitterBufferSamples * 2, PACKET_LENGTH_SAMPLES) * PACKET_LENGTH_SAMPLES

NoStep == [op |-> "none", before |-> 0, advance |-> 0]

\* Audio after construction and start: _ringBuffer(true) is stereo, starved or
\* not, its next-output pointer at the buffer start; the output device opened or
\* not
InitAudio ==
    /\ pc = "audio"
    /\ \E outputDevice \in BOOLEAN, isStarved \in BOOLEAN,
          initialJitterBufferSamples \in JitterBufferSamples :
          audio = [nextOutput |-> 0, isStarved |-> isStarved, hasStarted |-> FALSE,
                   isStereo |-> TRUE, outputDevice |-> outputDevice,
                   outputBufferSize |-> 0,
                   jitterBufferSamples |-> initialJitterBufferSamples,
                   numFramesDisplayStarve |-> 0, last |-> NoStep]
    /\ highlighting = NoHighlighting
    /\ threads = NoThreads
    /\ meshIndex = NoCounters
    /\ data = MeshDataOf(GeomPlain, LayerNone(FALSE), <<>>)
    /\ materials = <<>>
    /\ textures = <<>>
    /\ draco = NoDraco
    /\ isDracoMesh = FALSE
    /\ indices = <<>>
    /\ extracted = EmptyExtracted
    /\ materialTextureParts = <<>>
    /\ loop = EmptyLoop
    /\ calls = <<>>
    /\ poly = NoPoly
    /\ node = NodeOf(<<>>)
    /\ fbxMesh = NoFbxMesh
    /\ build = NoBuild
    /\ meshSet = FALSE

AudioUnchanged == UNCHANGED <<pc, highlighting, extractVars, buildVars, threadVars>>

\* handleAudioInput: _outputBuffer takes the size of the bytes read (lines 261,
\* 267); then, with an output device and something written to the ring buffer,
\* wait, starve, or play numOutputBufferSamples samples and advance the pointer.
\* What the ring buffer answers for getEndOfLastWrite() and
\* diffLastWriteNextOutput() is an input of the step.
HandleAudioInput(inputBytes, endOfLastWrite, diff) ==
    /\ pc = "audio"
    /\ LET sized == [audio EXCEPT !.outputBufferSize = inputBytes]
           numOutputBufferSamples == sized.outputBufferSize \div SizeofInt16
       IN  audio' =
              IF ~(sized.outputDevice /\ endOfLastWrite)
              THEN [sized EXCEPT !.last = [op |-> "idle", before |-> audio.nextOutput,
                                           advance |-> 0]]
              ELSE IF KeepWaiting(sized, diff)
              THEN [sized EXCEPT !.last = [op |-> "wait", before |-> audio.nextOutput,
                                           advance |-> 0]]
              ELSE IF ~sized.isStarved /\ diff = 0
              THEN [sized EXCEPT !.isStarved = TRUE, !.numFramesDisplayStarve = 10,
                                 !.last = [op |-> "starve", before |-> audio.nextOutput,
                                           advance |-> 0]]
              ELSE [sized EXCEPT
                      !.isStarved = FALSE,
                      !.hasStarted = IF sized.isStarved THEN TRUE ELSE @,
                      !.nextOutput = WrapAtOrPastEnd(@ + numOutputBufferSamples),
                      !.last = [op |-> "playback", before |-> audio.nextOutput,
                                advance |-> numOutputBufferSamples]]
    /\ AudioUnchanged

\* addReceivedAudioToBuffer: the jitter buffer is re-measured or not (lines
\* 400-411), the oldest packet is discarded when the buffer holds more than the
\* required amount (lines 413-423), then the packet is handed to parseData.
\* diffLastWriteNextOutput() is an input of the step.
AddReceivedAudioToBuffer(measure, newJitterBufferSamples, diff) ==
    /\ pc = "audio"
    /\ audio.nextOutput + PACKET_LENGTH_SAMPLES <= MaxOffset
    /\ LET measured == IF measure
                       THEN [audio EXCEPT !.jitterBufferSamples = newJitterBufferSamples]
                       ELSE audio
       IN  audio' =
              IF DiscardOldest(measured, diff)
              THEN [measured EXCEPT
                      !.nextOutput = WrapAtEnd(@ + PACKET_LENGTH_SAMPLES),
                      !.last = [op |-> "discard", before |-> audio.nextOutput,
                                advance |-> PACKET_LENGTH_SAMPLES]]
              ELSE [measured EXCEPT
                      !.last = [op |-> "receive", before |-> audio.nextOutput,
                                advance |-> 0]]
    /\ AudioUnchanged

NextAudio ==
    \/ \E inputBytes \in InputByteCounts, endOfLastWrite \in BOOLEAN, diff \in SampleDiffs :
          HandleAudioInput(inputBytes, endOfLastWrite, diff)
    \/ \E measure \in BOOLEAN, newJitterBufferSamples \in JitterBufferSamples,
          diff \in SampleDiffs :
          AddReceivedAudioToBuffer(measure, newJitterBufferSamples, diff)

SpecAudio == InitAudio /\ [][NextAudio]_vars

\* the next-output pointer is inside the buffer
InsideBuffer(nextOutput) == nextOutput \in 0..(RING_BUFFER_LENGTH_SAMPLES - 1)

\* C30: after any sequence of handleAudioInput playback steps and
\* addReceivedAudioToBuffer calls the next-output pointer is at an offset in
\* [0, RING_BUFFER_LENGTH_SAMPLES) from the buffer start, an advance that reaches
\* or passes the end having been wrapped to the start.
C30_NextOutputInsideBuffer ==
    /\ InsideBuffer(audio.nextOutput)
    /\ (/\ audio.last.op \in {"playback", "discard"}
        /\ audio.last.before + audio.last.advance >= RING_BUFFER_LENGTH_SAMPLES)
          => audio.nextOutput = 0

\* the playback step alone leaves the pointer inside the buffer, wherever it was
PlaybackInsideBuffer ==
    audio.last.op = "playback" => InsideBuffer(audio.nextOutput)

\* the discard leaves the pointer inside the buffer when it started inside, on a
\* packet boundary
DiscardOnPacketBoundaryInsideBuffer ==
    (/\ audio.last.op = "discard"
     /\ InsideBuffer(audio.last.before)
     /\ audio.last.before % PACKET_LENGTH_SAMPLES = 0)
       => InsideBuffer(audio.nextOutput)

\* the case C30 misses: a discard from inside the buffer, off a packet boundary,
\* that passes the end
DiscardPassesEnd ==
    /\ audio.last.op = "discard"
    /\ InsideBuffer(audio.last.before)
    /\ audio.last.before + PACKET_LENGTH_SAMPLES > RING_BUFFER_LENGTH_SAMPLES
    /\ audio.nextOutput = audio.last.before + PACKET_LENGTH_SAMPLES

====
